---- MODULE Spec2Model ----
(***************************************************************************)
(* Octarine: the converter registry (conversion.py) and the object index   *)
(* and state-mutation engine of the Viewer (viewer.py).                    *)
(***************************************************************************)
EXTENDS Integers, Sequences, FiniteSets, TLC

VARIABLES
    CONVERTERS,   \* conversion.py: the module-level registry, a dict, kept as its item list
    nreg,         \* number of register_converter calls made so far (bounds the run)
    call,         \* the last call made and its outcome (return value or exception)
    scene,        \* per viewer: Viewer.scene.children, in stored order
    objCache,     \* the lru_cache(maxsize=1) of Viewer._objects, shared by all viewers
    show_bounds,  \* per viewer: Viewer._show_bounds
    render_stale, \* per viewer: Viewer._render_stale
    selected,     \* per viewer: Viewer._selected
    lastRead,     \* per viewer: the structure the caller got from its last read of objects
    palette_index, \* per viewer: Viewer._palette_index + 1, modulo the length of the palette
    animations,   \* per viewer: _animations, _animations_flagged_for_removal and the
                  \* frame counter
    gizmo,        \* the selection gizmo: its configuration, _active, visible, _sel_info
    render_trigger, \* per viewer: Viewer._render_trigger
    message,      \* per viewer: _message_text, its place in the overlay scene, its
                  \* opacity, and whether _fade_out_time has passed
    double_click  \* per viewer: _on_double_click and the handlers the scene holds
                  \* for "double_click"

convVars == <<CONVERTERS, nreg>>
viewVars == <<scene, objCache, show_bounds, render_stale, selected, lastRead,
              palette_index, animations, gizmo, render_trigger, message, double_click>>
uiVars == <<render_trigger, message, double_click>>
vars == <<CONVERTERS, nreg, call, scene, objCache, show_bounds, render_stale,
          selected, lastRead, palette_index, animations, gizmo, render_trigger,
          message, double_click>>

\* Bounds of the model
MaxRegs == 2
MaxChildren == 2
MaxSeries == 4

\* The sequence that a function over 1..n is, built once
AsSeq(f) == f \o <<>>

NoCall == [op |-> "none"]

(***************************************************************************)
(* Values, matchers and handlers                                           *)
(***************************************************************************)

\* The keys of the registry as shipped (conversion.py:7-16), in order.
BuiltinItems == <<
    [k |-> "is_pygfx_visual",   v |-> "passthrough"],
    [k |-> "is_pygfx_geometry", v |-> "geometry2mesh"],
    [k |-> "tm.Trimesh",        v |-> "trimesh2gfx"],
    [k |-> "tm.Scene",          v |-> "scene2gfx"],
    [k |-> "is_mesh_like",      v |-> "mesh2gfx"],
    [k |-> "is_points",         v |-> "points2gfx"],
    [k |-> "is_lines",          v |-> "lines2gfx"],
    [k |-> "is_volume",         v |-> "volume2gfx"] >>

\* Matchers a caller registers: a type that is already a key, a hashable
\* sentinel, predicates that return True / a truthy value that is not True /
\* raise ValueError / raise SystemExit, a callable that is not hashable, and
\* a list (neither hashable nor callable).
MatcherInputs == {"tm.Trimesh", "flag", "is_any", "is_truthy", "is_raising",
                  "is_exiting", "unhashable_fn", "a_list"}

HandlerInputs == {"h_user", "h_alt", "not_callable"}

InsertInputs == {"first", "last"}

\* Values handed to get_converter / Viewer.add.
Atoms == {"trimesh_obj", "mymesh_obj", "points_arr", "volume_arr",
          "gfx_visual", "flag", "text"}

Types == {"tm.Trimesh", "tm.Scene", "MyMesh"}

Predicates == {"is_pygfx_visual", "is_pygfx_geometry", "is_mesh_like", "is_points",
               "is_lines", "is_volume", "is_any", "is_truthy", "is_raising",
               "is_exiting", "unhashable_fn"}

\* type(t)
TypeOf(t) ==
    CASE t = "trimesh_obj" -> "tm.Trimesh"
      [] t = "mymesh_obj"  -> "MyMesh"
      [] t \in {"points_arr", "volume_arr"} -> "np.ndarray"
      [] t = "gfx_visual"  -> "gfx.Mesh"
      [] t \in {"flag", "text"} -> "str"
      [] t \in {"navis_mesh", "tiny_mesh", "faceless_mesh"} -> "MeshNeuron"
      [] t = "empty_scene" -> "tm.Scene"
      [] OTHER -> "list"

\* isinstance(t, k) for a type k: MyMesh derives from tm.Trimesh
IsInstance(t, k) ==
    \/ TypeOf(t) = k
    \/ TypeOf(t) = "MyMesh" /\ k = "tm.Trimesh"

\* hash(x) succeeds: arrays and lists are not hashable
is_hashable(x) == x \notin {"points_arr", "volume_arr", "a_list", "unhashable_fn"}

Callables == Types \cup Predicates \cup {"h_user", "h_alt"}
             \cup {BuiltinItems[i].v : i \in 1..Len(BuiltinItems)}
callable(x) == x \in Callables

is_mesh_like(x) ==
    x \in {"trimesh_obj", "mymesh_obj", "navis_mesh", "tiny_mesh", "faceless_mesh"}
is_points(x) == x = "points_arr"
is_lines(x) == x = "points_arr"
is_volume(x) == x = "volume_arr"
is_pygfx_visual(x) == x = "gfx_visual"
is_pygfx_geometry(x) == FALSE

\* The outcome of k(t) for a callable matcher k: "True", "False", "truthy"
\* (a true-ish value that is not True), "object" (a type called as a
\* constructor), "Exception" or "BaseException" (an exception outside the
\* Exception hierarchy, such as SystemExit).
Bool2Str(b) == IF b THEN "True" ELSE "False"
CallMatcher(k, t) ==
    CASE k = "is_pygfx_visual"   -> Bool2Str(is_pygfx_visual(t))
      [] k = "is_pygfx_geometry" -> Bool2Str(is_pygfx_geometry(t))
      [] k = "is_mesh_like"      -> Bool2Str(is_mesh_like(t))
      [] k = "is_points"         -> Bool2Str(is_points(t))
      [] k = "is_lines"          -> Bool2Str(is_lines(t))
      [] k = "is_volume"         -> Bool2Str(is_volume(t))
      [] k = "is_any"            -> "True"
      [] k = "unhashable_fn"     -> "True"
      [] k = "is_truthy"         -> "truthy"
      [] k = "is_raising"        -> "Exception"
      [] k = "is_exiting"        -> "BaseException"
      [] OTHER                   -> "object"

(***************************************************************************)
(* conversion.py                                                           *)
(***************************************************************************)

Returned(v) == [kind |-> "return", v |-> v, exc |-> "none"]
Raised(e) == [kind |-> "raise", v |-> "None", exc |-> e]

\* The loop body of get_converter for rule i and on: the four tests of one
\* rule are tried before the next rule is looked at.
RECURSIVE ScanRulesReversed(_, _, _)
ScanRulesReversed(conv, t, i) ==
    IF i < 1 THEN [kind |-> "exhausted", v |-> "None", exc |-> "none"]
    ELSE LET k == conv[i].k
             v == conv[i].v
         IN  IF is_hashable(t) /\ t = k THEN Returned(v)
             ELSE IF TypeOf(t) = k THEN Returned(v)
             ELSE IF k \in Types /\ IsInstance(t, k) THEN Returned(v)
             ELSE IF callable(k) /\ CallMatcher(k, t) = "True" THEN Returned(v)
             ELSE IF callable(k) /\ CallMatcher(k, t) = "BaseException"
                  THEN Raised("SystemExit")
             ELSE ScanRulesReversed(conv, t, i - 1)

RECURSIVE ScanRulesFrom(_, _, _)
ScanRulesFrom(conv, t, i) ==
    IF i > Len(conv) THEN [kind |-> "exhausted", v |-> "None", exc |-> "none"]
    ELSE LET k == conv[i].k
             v == conv[i].v
         IN  IF is_hashable(t) /\ t = k THEN Returned(v)
             ELSE IF TypeOf(t) = k THEN Returned(v)
             ELSE IF k \in Types /\ IsInstance(t, k) THEN Returned(v)
             ELSE IF callable(k) /\ CallMatcher(k, t) = "True" THEN Returned(v)
             ELSE IF callable(k) /\ CallMatcher(k, t) = "BaseException"
                  THEN Raised("SystemExit")
             ELSE ScanRulesFrom(conv, t, i + 1)

\* A scan that takes any truthy predicate result for a match (if k(t):)
RECURSIVE ScanRulesTruthyFrom(_, _, _)
ScanRulesTruthyFrom(conv, t, i) ==
    IF i > Len(conv) THEN [kind |-> "exhausted", v |-> "None", exc |-> "none"]
    ELSE LET k == conv[i].k
             v == conv[i].v
         IN  IF is_hashable(t) /\ t = k THEN Returned(v)
             ELSE IF TypeOf(t) = k THEN Returned(v)
             ELSE IF k \in Types /\ IsInstance(t, k) THEN Returned(v)
             ELSE IF callable(k) /\ CallMatcher(k, t) \in {"True", "truthy", "object"}
                  THEN Returned(v)
             ELSE IF callable(k) /\ CallMatcher(k, t) = "BaseException"
                  THEN Raised("SystemExit")
             ELSE ScanRulesTruthyFrom(conv, t, i + 1)

ScanRulesTruthy(conv, t) == ScanRulesTruthyFrom(conv, t, 1)

ScanRulesBackwards(conv, t) == ScanRulesReversed(conv, t, Len(conv))

ScanRules(conv, t) == ScanRulesFrom(conv, t, 1)

\* get_converter(t, raise_missing) over the registry conv
get_converter(conv, t, raise_missing) ==
    LET r == ScanRules(conv, t)
    IN  IF r.kind # "exhausted" THEN r
        ELSE IF ~raise_missing THEN Returned("None")
        ELSE [kind |-> "raise", v |-> "None", exc |-> "NotImplementedError",
              value |-> t, type |-> TypeOf(t)]

\* Positions of key k in an item list
KeyPositions(items, k) == {i \in 1..Len(items) : items[i].k = k}

\* d[k] = v on a dict: replaces the value in place, or appends a new key
DictSetItem(d, k, v) ==
    IF KeyPositions(d, k) = {}
    THEN Append(d, [k |-> k, v |-> v])
    ELSE AsSeq([i \in 1..Len(d) |-> IF d[i].k = k THEN [k |-> k, v |-> v] ELSE d[i]])

\* dict(items): the items are set one after another, so a key keeps the
\* position of its first occurrence and takes the value of its last one.
RECURSIVE DictBuild(_, _, _)
DictBuild(acc, items, i) ==
    IF i > Len(items) THEN acc
    ELSE DictBuild(DictSetItem(acc, items[i].k, items[i].v), items, i + 1)

DictFromItems(items) == DictBuild(<<>>, items, 1)

\* A registration that validates its arguments only after inserting
RegisterOutcomeLateCheck(conv, t, converter, insert) ==
    LET new == IF ~is_hashable(t) THEN conv
               ELSE IF insert = "first"
                    THEN DictFromItems(<<[k |-> t, v |-> converter]>> \o conv)
                    ELSE DictSetItem(conv, t, converter)
    IN  IF ~callable(converter) THEN [conv |-> new, exc |-> "ValueError"]
        ELSE IF ~callable(t) /\ ~is_hashable(t) THEN [conv |-> new, exc |-> "ValueError"]
        ELSE IF ~is_hashable(t) THEN [conv |-> new, exc |-> "TypeError"]
        ELSE [conv |-> new, exc |-> "none"]

\* The outcome of register_converter(t, converter, insert) on registry conv:
\* the new registry and the exception raised, if any.
RegisterOutcome(conv, t, converter, insert) ==
    IF ~callable(converter) THEN [conv |-> conv, exc |-> "ValueError"]
    ELSE IF ~callable(t) /\ ~is_hashable(t) THEN [conv |-> conv, exc |-> "ValueError"]
    ELSE IF ~is_hashable(t) THEN [conv |-> conv, exc |-> "TypeError"]
    ELSE IF insert = "first"
         THEN [conv |-> DictFromItems(<<[k |-> t, v |-> converter]>> \o conv),
               exc |-> "none"]
         ELSE [conv |-> DictSetItem(conv, t, converter), exc |-> "none"]

register_converter(t, converter, insert) ==
    /\ nreg < MaxRegs
    /\ LET out == RegisterOutcome(CONVERTERS, t, converter, insert)
       IN  /\ CONVERTERS' = out.conv
           /\ call' = [op |-> "register_converter", t |-> t, converter |-> converter,
                       insert |-> insert, exc |-> out.exc, before |-> CONVERTERS]
    /\ nreg' = nreg + 1
    /\ UNCHANGED viewVars

\* A caller resolving a value
GetConverterCall(t, raise_missing) ==
    /\ call' = [op |-> "get_converter", t |-> t, raise_missing |-> raise_missing,
                out |-> get_converter(CONVERTERS, t, raise_missing)]
    /\ UNCHANGED <<convVars, viewVars>>

(***************************************************************************)
(* viewer.py: the scene, the object index and its cache                    *)
(***************************************************************************)

\* The open viewers (viewer.py:29, viewers.append(self) in __init__)
Viewers == {"v1", "v2", "v3"}

NoId == "<no _object_id>"
Unset == "<unset>"

\* A colour: its hue and its lightness in tenths (Color.to_hsl / from_hsl);
\* NoColor stands for an attribute that is absent
Color(hue, l) == [hue |-> hue, l |-> l]
NoColor == Color(Unset, 0)

\* A child of the scene. h is the identity of the Python object; oid is its
\* _object_id (NoId when it carries none); stored is _stored_color and
\* original is material._original_color (NoColor while the attribute is absent).
Child(h, oid, otype, color) ==
    [h |-> h, oid |-> oid, otype |-> otype, visible |-> TRUE, pinned |-> FALSE,
     highlighted |-> FALSE, color |-> color, stored |-> NoColor, original |-> NoColor]

\* Viewer.__init__: an ambient light, two point lights and the background
InitialChildren == <<
    Child(-1, NoId, "AmbientLight", NoColor),
    Child(-2, NoId, "PointLight", NoColor),
    Child(-3, NoId, "PointLight", NoColor),
    Child(-4, NoId, "Background", NoColor) >>

\* Enough identities and uuids for every object alive at one time
HandleCap == 2 * MaxChildren + 6
UuidCap == 2 * MaxChildren + 6

EmptyCache == [key |-> "<empty>", val |-> <<>>, ident |-> 0]

\* The state one call works on: the variables of the model, the exception
\* the call has raised so far, the warnings it has logged, the calls it has
\* made to the camera, the palette and the scene, and the structures callers
\* still hold.
World ==
    [scene |-> scene, cache |-> objCache, show_bounds |-> show_bounds,
     stale |-> render_stale, selected |-> selected, exc |-> "none",
     warn |-> <<>>, palette |-> palette_index, log |-> <<>>,
     held |-> {lastRead[u].ident : u \in Viewers}]

\* Viewer.visuals: the children that carry an _object_id
Tagged(children) == SelectSeq(children, LAMBDA c : c.oid # NoId)

\* The body of Viewer._objects: group the tagged children by _object_id,
\* ids in order of first occurrence, primitives in scene order.
RECURSIVE GroupFrom(_, _, _)
GroupFrom(vis, i, acc) ==
    IF i > Len(vis) THEN acc
    ELSE LET c == vis[i]
             at == {j \in 1..Len(acc) : acc[j].oid = c.oid}
         IN  IF at = {}
             THEN GroupFrom(vis, i + 1, Append(acc, [oid |-> c.oid, prims |-> <<c.h>>]))
             ELSE GroupFrom(vis, i + 1,
                     AsSeq([j \in 1..Len(acc) |->
                        IF j \in at
                        THEN [oid |-> c.oid, prims |-> Append(acc[j].prims, c.h)]
                        ELSE acc[j]]))

GroupByObjectId(children) == GroupFrom(Tagged(children), 1, <<>>)

\* The least element of a non-empty set of integers
Least(S) == CHOOSE x \in S : \A y \in S : x <= y

\* A new Python object: any identity that no live reference holds
FreshIdent(w) == Least((1..HandleCap) \ (w.held \cup {w.cache.ident}))

\* Viewer.objects: _objects() behind functools.lru_cache(maxsize=1). The
\* decorator sits on the function in the class body, so all viewers share one
\* cache of one entry, keyed by the viewer; cache_clear() empties it for all.
Objects(w, v) ==
    IF w.cache.key = v
    THEN [w |-> w, val |-> w.cache.val, ident |-> w.cache.ident]
    ELSE LET val == GroupByObjectId(w.scene[v])
             id == FreshIdent(w)
         IN  [w |-> [w EXCEPT !.cache = [key |-> v, val |-> val, ident |-> id]],
              val |-> val, ident |-> id]

\* Lookups in the mapping objects() returns
Ids(objs) == AsSeq([j \in 1..Len(objs) |-> objs[j].oid])
IdSet(objs) == {objs[j].oid : j \in 1..Len(objs)}
PrimsOf(objs, oid) ==
    LET at == {j \in 1..Len(objs) : objs[j].oid = oid}
    IN  IF at = {} THEN <<>> ELSE objs[CHOOSE j \in at : TRUE].prims
Range(seq) == {seq[j] : j \in 1..Len(seq)}

\* Handles and ids that some live structure still refers to
UsedHandles(w) ==
    UNION {{w.scene[u][j].h : j \in 1..Len(w.scene[u])} : u \in Viewers}
    \cup UNION {Range(w.cache.val[j].prims) : j \in 1..Len(w.cache.val)}
UsedIds(w) ==
    UNION {{w.scene[u][j].oid : j \in 1..Len(w.scene[u])} : u \in Viewers}
    \cup IdSet(w.cache.val)
    \cup UNION {Range(w.selected[u]) : u \in Viewers}

FreshHandle(w) == Least((1..HandleCap) \ UsedHandles(w))

\* uuid.uuid4(): an id no live structure holds
UuidName(i) == "uuid-" \o ToString(i)
FreshUuid(w) ==
    LET used == UsedIds(w)
    IN  UuidName(Least({i \in 1..UuidCap : UuidName(i) \notin used}))

\* Object identities carry no information beyond equality: after a call the
\* tagged children of a scene are renumbered by position, and a reference
\* the cache still holds to a child that has left the scene becomes 0.
Renumbered(children) ==
    AsSeq([j \in 1..Len(children) |->
        IF children[j].oid = NoId THEN children[j]
        ELSE [children[j] EXCEPT
                 !.h = Cardinality({i \in 1..j : children[i].oid # NoId})]])

NewHandle(children, h) ==
    LET at == {j \in 1..Len(children) : children[j].h = h /\ children[j].oid # NoId}
    IN  IF at = {} THEN 0
        ELSE Cardinality({i \in 1..(CHOOSE j \in at : TRUE) : children[i].oid # NoId})

Normalize(w) ==
    [w EXCEPT
       !.scene = [u \in Viewers |-> Renumbered(w.scene[u])],
       !.cache = IF w.cache.key \notin Viewers THEN w.cache
                 ELSE [w.cache EXCEPT !.val =
                         AsSeq([j \in 1..Len(w.cache.val) |->
                            [w.cache.val[j] EXCEPT !.prims =
                               AsSeq([i \in 1..Len(w.cache.val[j].prims) |->
                                  NewHandle(w.scene[w.cache.key],
                                            w.cache.val[j].prims[i])])]])]]

\* scene.add(child) / scene.remove(children with these handles)
SceneAdd(w, v, child) == [w EXCEPT !.scene[v] = Append(@, child)]
SceneRemove(w, v, handles) ==
    [w EXCEPT !.scene[v] = SelectSeq(@, LAMBDA c : c.h \notin handles)]

\* scene.get_bounding_box(): None when no child has geometry (lights and the
\* background have none)
HasBoundingBox(w, v) == Tagged(w.scene[v]) # <<>>

\* The box of update_bounds, tagged "boundingbox" with a uuid for an id
BoxChild(w) == Child(FreshHandle(w), FreshUuid(w), "boundingbox", Color("white", 10))

\* update_helper without the bounds step: clear the cache (legend: the
\* viewers of the model have no controls panel and no widget), set the
\* stale flag, request a draw.
ClearAndFlag(w, v) ==
    [w EXCEPT !.cache = EmptyCache, !.stale[v] = TRUE]

\* A loop of remove_objects that walks the list of children itself while it
\* shrinks: the child after a removed one moves into its place and is skipped
RECURSIVE RemoveLive(_, _, _, _)
RemoveLive(children, i, handles, ids) ==
    IF i > Len(children) THEN children
    ELSE IF children[i].h \in handles
            \/ (children[i].oid # NoId /\ children[i].oid \in ids)
         THEN RemoveLive(SubSeq(children, 1, i - 1)
                         \o SubSeq(children, i + 1, Len(children)), i + 1, handles, ids)
         ELSE RemoveLive(children, i + 1, handles, ids)

RemoveLoopLive(w, v, handles, ids) ==
    [w EXCEPT !.scene[v] = RemoveLive(@, 1, handles, ids)]

\* The loop of remove_objects over scene.children (a tuple, i.e. a snapshot):
\* a child goes when it is itself in to_remove or its _object_id is.
RemoveLoop(w, v, handles, ids) ==
    SceneRemove(w, v, {c.h : c \in {x \in Range(w.scene[v]) :
                                      x.h \in handles \/ (x.oid # NoId /\ x.oid \in ids)}})

\* update_bounds adds its box with scene.add and does not clear the cache
AddBox(w, v) ==
    IF HasBoundingBox(w, v) THEN SceneAdd(w, v, BoxChild(w)) ELSE w

\* remove_objects called with show_bounds off (as remove_bounds calls it):
\* the loop, then update_helper, whose bounds step does nothing.
RemoveNoBounds(w, v, handles, ids) == ClearAndFlag(RemoveLoop(w, v, handles, ids), v)

\* Viewer.remove_bounds: switch the flag off, then remove_objects(box) for
\* every box among the visuals
RECURSIVE RemoveBoxes(_, _, _)
RemoveBoxes(w, v, boxes) ==
    IF boxes = <<>> THEN w
    ELSE RemoveBoxes(RemoveNoBounds(w, v, {boxes[1].h}, {}), v, Tail(boxes))

remove_bounds(w, v) ==
    LET w1 == [w EXCEPT !.show_bounds[v] = FALSE]
    IN  RemoveBoxes(w1, v, SelectSeq(Tagged(w1.scene[v]),
                                     LAMBDA c : c.otype = "boundingbox"))

\* Viewer.update_bounds
update_bounds(w, v) ==
    LET w1 == remove_bounds(w, v)
        w2 == [w1 EXCEPT !.show_bounds[v] = TRUE]
    IN  AddBox(w2, v)

\* update_helper(viewer, legend, bounds)
update_helper(w, v, bounds) ==
    LET w1 == [w EXCEPT !.cache = EmptyCache]
        w2 == IF bounds /\ w1.show_bounds[v] THEN update_bounds(w1, v) ELSE w1
    IN  [w2 EXCEPT !.stale[v] = TRUE]

\* The decorator update_viewer: run the function, then update_helper; an
\* exception raised by the function skips the update.
update_viewer(w, v, bounds) ==
    IF w.exc # "none" THEN w ELSE update_helper(w, v, bounds)

\* Viewer.remove_objects (decorated)
remove_objects(w, v, handles, ids) ==
    update_viewer(RemoveLoop(w, v, handles, ids), v, TRUE)

\* A clear that returns before it removes anything (the branch clear takes
\* when config.HEADLESS is set)
clear_headless(w, v) == update_viewer(w, v, TRUE)

\* Viewer.clear (decorated): scene.remove(*self.visuals)
clear(w, v) ==
    update_viewer(SceneRemove(w, v, {c.h : c \in Range(Tagged(w.scene[v]))}), v, TRUE)

\* list[-N:] of Python for N >= 0: the last N elements, and all of them for
\* N = 0 (since -0 is 0) or N >= len
LastN(seq, N) ==
    IF N = 0 \/ N >= Len(seq) THEN seq ELSE SubSeq(seq, Len(seq) - N + 1, Len(seq))

\* Viewer.pop (decorated): remove_objects(vis) for each of the last N groups
\* of the mapping read at the start
RECURSIVE PopLoop(_, _, _)
PopLoop(w, v, groups) ==
    IF groups = <<>> THEN w
    ELSE PopLoop(remove_objects(w, v, Range(groups[1].prims), {}), v, Tail(groups))

pop(w, v, N) ==
    LET r == Objects(w, v)
    IN  update_viewer(PopLoop(r.w, v, LastN(r.val, N)), v, TRUE)

\* The setter of Viewer.show_bounds (not decorated)
set_show_bounds(w, v, b) ==
    LET w1 == [w EXCEPT !.show_bounds[v] = b]
    IN  IF b THEN update_bounds(w1, v) ELSE remove_bounds(w1, v)

\* Viewer.toggle_bounds
toggle_bounds(w, v) == set_show_bounds(w, v, ~w.show_bounds[v])

\* The positions among the children of the primitives tagged oid
Members(children, oid) == {j \in 1..Len(children) : children[j].oid = oid}

\* Viewer._object_ids: the ids of the objects among the children
ObjectIds(children) == {c.oid : c \in Range(Tagged(children))}
(***************************************************************************)
(* viewer.py: adding objects                                               *)
(***************************************************************************)

None == "None"

\* A value handed to Viewer.add: one datum, or a non-array sequence of values
Atom(a) == [batch |-> FALSE, a |-> a, items |-> <<>>]
Batch(items) == [batch |-> TRUE, a |-> "a_list", items |-> items]

\* utils.is_iterable(x) and not isinstance(x, np.ndarray)
IsBatch(x) == x.batch

\* str.startswith
StartsWith(s, p) == Len(s) >= Len(p) /\ SubSeq(s, 1, Len(p)) = p

\* format(n, "03")
Format03(n) ==
    IF n < 10 THEN "00" \o ToString(n)
    ELSE IF n < 100 THEN "0" \o ToString(n)
    ELSE ToString(n)

\* A _next_label that numbers an object by the objects before it
next_label_from_zero(w, v, prefix) ==
    LET r == Objects(w, v)
        existing == {j \in 1..Len(r.val) : StartsWith(r.val[j].oid, prefix)}
    IN  [w |-> r.w,
         label |-> IF existing = {} THEN prefix
                   ELSE prefix \o "." \o Format03(Cardinality(existing))]

\* Viewer._next_label: reads the (cached) mapping
next_label(w, v, prefix) ==
    LET r == Objects(w, v)
        existing == {j \in 1..Len(r.val) : StartsWith(r.val[j].oid, prefix)}
    IN  [w |-> r.w,
         label |-> IF existing = {} THEN prefix
                   ELSE prefix \o "." \o Format03(Cardinality(existing) + 1)]

\* What a handler returns for a value, after make_iterable: the visuals, each
\* with its _object_type and whether the handler gave it a (uuid) _object_id.
\* trimesh2gfx, the pass-through and scene2gfx set neither attribute; points2gfx,
\* volume2gfx and mesh2gfx set both. A trimesh Scene holds two geometries here.
Visual(otype, tagged) == [otype |-> otype, tagged |-> tagged]
Convert(handler, a) ==
    CASE handler = "points2gfx" -> <<Visual("points", TRUE)>>
      [] handler = "lines2gfx"  -> <<Visual("lines", TRUE)>>
      [] handler = "volume2gfx" -> <<Visual("volume", TRUE)>>
      [] handler = "mesh2gfx"   -> <<Visual("mesh", TRUE)>>
      [] handler = "scene2gfx"  -> <<Visual(Unset, FALSE), Visual(Unset, FALSE)>>
      [] OTHER                  -> <<Visual(Unset, FALSE)>>

\* make_iterable(None): an array that holds None
NoneVisual == Visual("NoneType", FALSE)

\* A 2-D array of rows colours, for a color keyword
ColorArray(rows) == Color("array", rows)
IsColorArray(color) == color.hue = "array"

\* "color" in inspect.signature(handler).parameters; the handlers a caller
\* registers take the value alone, like the two lambdas
TakesColor(handler) ==
    handler \in {"trimesh2gfx", "mesh2gfx", "points2gfx", "lines2gfx", "volume2gfx"}

\* len(x.vertices), len(x.faces), len(points)
Vertices(a) == IF a = "navis_mesh" THEN 4 ELSE 3
Faces(a) == CASE a = "navis_mesh" -> 2 [] a = "faceless_mesh" -> 0 [] OTHER -> 1
Rows(a) == 4

\* parse_mesh_color raises for an array that fits neither vertices nor faces
BadMeshColor(a, color) ==
    IsColorArray(color) /\ color.l # Vertices(a) /\ color.l # Faces(a)

\* make_iterable(handler(x, **kwargs)) with color in kwargs, NoColor for
\* no such keyword: the exception, or the visuals. mesh2gfx returns None for
\* a mesh without faces, scene2gfx an empty list for an empty scene.
CallHandler(handler, a, color) ==
    IF color # NoColor /\ ~TakesColor(handler)
    THEN [exc |-> "TypeError", visuals |-> <<>>]
    ELSE IF handler = "mesh2gfx" /\ Faces(a) = 0
    THEN [exc |-> "none", visuals |-> <<NoneVisual>>]
    ELSE IF handler = "mesh2gfx" /\ BadMeshColor(a, color)
    THEN [exc |-> "ValueError", visuals |-> <<>>]
    ELSE IF handler \in {"points2gfx", "lines2gfx"} /\ IsColorArray(color)
            /\ color.l # Rows(a)
    THEN [exc |-> "ValueError", visuals |-> <<>>]
    ELSE IF handler = "scene2gfx" /\ a = "empty_scene"
    THEN [exc |-> "none", visuals |-> <<>>]
    ELSE [exc |-> "none", visuals |-> Convert(handler, a)]

\* The color a new visual gets from its handler
NewColor == Color("palette", 4)

\* list(cmap.Colormap(viewer.palette).iter_colors()): the third viewer has a
\* palette of PaletteLen colors, the others a palette of one
PaletteLen == 3
Palette(v) ==
    IF v = "v3" THEN AsSeq([i \in 1..PaletteLen |-> Color("palette", 4 + i)])
    ELSE <<NewColor>>

\* What a call did to the camera, the palette and the scene, in order: e is
\* "center_camera", "next_color" or "scene.add", x the value at hand, i the
\* index into the palette and n the number of objects at the time
Event(e, x, i, n) == [e |-> e, x |-> x, i |-> i, n |-> n]
Logged(w, ev) == [w EXCEPT !.log = Append(@, ev)]

\* Viewer.__len__
NumObjects(w, v) == Cardinality(ObjectIds(w.scene[v]))

\* A _next_color that takes the color at the number of objects present
next_color_by_count(w, v, a) ==
    LET i == NumObjects(w, v) % Len(Palette(v))
    IN  [w |-> Logged(w, Event("next_color", a, i, NumObjects(w, v))),
         color |-> Palette(v)[i + 1]]

\* Viewer._next_color: the index goes up by one with every call
next_color(w, v, a) ==
    LET i == w.palette[v]
        w1 == [w EXCEPT !.palette[v] = (i + 1) % Len(Palette(v))]
    IN  [w |-> Logged(w1, Event("next_color", a, i, NumObjects(w, v))),
         color |-> Palette(v)[i + 1]]

\* Viewer.center_camera: camera.show_object when n > 0
center_camera(w, v) == Logged(w, Event("center_camera", "", 0, NumObjects(w, v)))

\* The color of the visual a handler made: trimesh2gfx and the handlers
\* without the parameter do not look at the keyword
ColorOf(handler, color) ==
    IF handler \in {"mesh2gfx", "points2gfx", "lines2gfx", "volume2gfx"}
       /\ color # NoColor
    THEN color ELSE NewColor

\* The loop of Viewer.add over the visuals of one converted value a
RECURSIVE AddVisuals(_, _, _, _, _, _)
AddVisuals(w, v, a, visuals, name, color) ==
    IF visuals = <<>> \/ w.exc # "none" THEN w
    ELSE LET d == visuals[1]
             lab == next_label(w, v, "Object")
             w1 == IF name = None /\ ~d.tagged THEN lab.w ELSE w
             oid == IF name # None THEN name
                    ELSE IF ~d.tagged THEN lab.label
                    ELSE FreshUuid(w)
             child == Child(FreshHandle(w1), oid, d.otype, color)
             w2 == Logged(SceneAdd(w1, v, child),
                          Event("scene.add", a, 0, NumObjects(w1, v)))
         IN  IF d = NoneVisual THEN [w1 EXCEPT !.exc = "AttributeError"]
             ELSE AddVisuals(w2, v, a, Tail(visuals), name, color)

\* Viewer.add after the batch branch, for one value and its converter
AddOne(w, v, a, handler, name, center, color) ==
    LET inject == color = NoColor /\ TakesColor(handler)
        nc == next_color(w, v, a)
        w1 == IF inject THEN nc.w ELSE w
        kw == IF inject THEN nc.color ELSE color
        r == CallHandler(handler, a, kw)
        w2 == IF r.exc # "none" THEN [w1 EXCEPT !.exc = r.exc]
              ELSE AddVisuals(w1, v, a, r.visuals, name, ColorOf(handler, kw))
    IN  IF center /\ w2.exc = "none" THEN center_camera(w2, v) ELSE w2

\* Viewer.add (decorated with update_viewer): AddBody is the function, add
\* the decorated method. A batch is added element by element through the
\* decorated method; the first exception ends the call.
RECURSIVE add(_, _, _, _, _, _, _)
RECURSIVE AddBatch(_, _, _, _, _)
RECURSIVE AddBatchCentering(_, _, _, _, _)

\* A batch that centers the camera after every element
AddBatchCentering(w, v, items, name, color) ==
    IF items = <<>> \/ w.exc # "none" THEN w
    ELSE AddBatchCentering(add(w, v, items[1], name, TRUE, FALSE, color),
                           v, Tail(items), name, color)

AddBatch(w, v, items, name, color) ==
    IF items = <<>> \/ w.exc # "none" THEN w
    ELSE AddBatch(add(w, v, items[1], name, FALSE, FALSE, color),
                  v, Tail(items), name, color)

\* A Viewer.add that lets a value without a converter pass in silence
AddBodyLenient(w, v, x, name, center, clr, color) ==
    LET w1 == IF clr THEN clear(w, v) ELSE w
        conv == get_converter(CONVERTERS, x.a, FALSE)
        w2 == AddBatch(w1, v, x.items, name, color)
    IN  IF IsBatch(x)
        THEN IF center /\ w2.exc = "none" THEN center_camera(w2, v) ELSE w2
        ELSE IF conv.kind = "raise" THEN [w1 EXCEPT !.exc = conv.exc]
        ELSE IF conv.v = None THEN w1
        ELSE AddOne(w1, v, x.a, conv.v, name, center, color)

AddBody(w, v, x, name, center, clr, color) ==
    LET w1 == IF clr THEN clear(w, v) ELSE w
        conv == get_converter(CONVERTERS, x.a, FALSE)
        w2 == AddBatch(w1, v, x.items, name, color)
    IN  IF IsBatch(x)
        THEN IF center /\ w2.exc = "none" THEN center_camera(w2, v) ELSE w2
        ELSE IF conv.kind = "raise" THEN [w1 EXCEPT !.exc = conv.exc]
        ELSE IF conv.v = None THEN [w1 EXCEPT !.exc = "NotImplementedError"]
        ELSE AddOne(w1, v, x.a, conv.v, name, center, color)

add(w, v, x, name, center, clr, color) ==
    update_viewer(AddBody(w, v, x, name, center, clr, color), v, TRUE)

\* Viewer._add_to_scene (decorated)
add_to_scene(w, v, child) == update_viewer(SceneAdd(w, v, child), v, TRUE)

\* The common part of add_mesh, add_points, add_lines and add_volume: reject
\* a value of the wrong kind, take the name or the next label for the
\* prefix, convert and add through _add_to_scene.
AddTyped(w, v, ok, err, prefix, otype, name) ==
    IF ~ok THEN [w EXCEPT !.exc = err]
    ELSE LET lab == next_label(w, v, prefix)
             w1 == IF name = None THEN lab.w ELSE w
             oid == IF name = None THEN lab.label ELSE name
         IN  add_to_scene(w1, v, Child(FreshHandle(w1), oid, otype, NewColor))

\* Viewer.add_mesh
add_mesh(w, v, a, name) ==
    AddTyped(w, v, is_mesh_like(a), "TypeError", "Mesh", "mesh", name)

\* Viewer.add_points
add_points(w, v, a, name) ==
    AddTyped(w, v, is_points(a), "TypeError", "Scatter", "points", name)

\* Viewer.add_lines
add_lines(w, v, a, name) ==
    AddTyped(w, v, is_lines(a), "TypeError", "Lines", "lines", name)

\* Viewer.add_volume
add_volume(w, v, a, name) ==
    AddTyped(w, v, is_volume(a), "TypeError", "Volume", "volume", name)

(***************************************************************************)
(* viewer.py: visibility, pinning, colours, highlights and the selection   *)
(***************************************************************************)

\* A loop over the ids that reaches the first primitive of each object only
KnownFirstPrims(objs, ids) ==
    {PrimsOf(objs, ids[i])[1] : i \in {k \in 1..Len(ids) : ids[k] \in IdSet(objs)}}

\* A loop over the ids that an unknown id ends: the primitives of the
\* known ids in front of it
KnownPrimsUntilUnknown(objs, ids) ==
    UNION {Range(PrimsOf(objs, ids[i])) :
              i \in {k \in 1..Len(ids) : \A m \in 1..k : ids[m] \in IdSet(objs)}}

\* make_iterable(obj) for a list of ids; the primitives the mapping holds
\* for those of the ids it knows (the others are logged and skipped)
KnownPrims(objs, ids) ==
    UNION {Range(PrimsOf(objs, ids[i])) : i \in 1..Len(ids)}

\* logger.warning for each of the ids the mapping does not know, in order
Warn(w, objs, ids) ==
    [w EXCEPT !.warn = @ \o SelectSeq(ids, LAMBDA o : o \notin IdSet(objs))]

\* An optional argument: a list of ids, or None
Given(ids) == [given |-> TRUE, ids |-> ids]
NotGiven == [given |-> FALSE, ids |-> <<>>]

\* A hide_objects that does not look at _pinned
HideChildAlways(c) == [c EXCEPT !.visible = FALSE]

\* The innermost steps of the loops: what each does to one primitive
HideChild(c) == IF c.pinned THEN c ELSE [c EXCEPT !.visible = FALSE]
UnhideChild(c) == IF c.pinned THEN c ELSE [c EXCEPT !.visible = TRUE]
PinChild(c) == [c EXCEPT !.pinned = TRUE]
UnpinChild(c) == [c EXCEPT !.pinned = FALSE]
RecolorChild(c, color) == IF c.pinned THEN c ELSE [c EXCEPT !.color = color]

\* Viewer.highlight_color
HighlightColor == Color("yellow", 5)

\* The argument color=0.2 of highlight_objects: a number, not a colour
ByAmount == Color("<lightness>", 2)

\* The colour highlight_objects computes from a number: the lightness goes
\* up by it (0.2), capped at 1, and down by it when it is 1 already
Lighten(color) ==
    [color EXCEPT !.l = IF @ < 10 THEN (IF @ + 2 > 10 THEN 10 ELSE @ + 2) ELSE @ - 2]

\* A highlight_objects that does not look at _highlighted
HighlightChildAgain(c, color) ==
    IF c.pinned THEN c
    ELSE [c EXCEPT !.original = c.color,
                   !.color = IF color = ByAmount THEN Lighten(c.color) ELSE color,
                   !.highlighted = TRUE]

HighlightChild(c, color) ==
    IF c.pinned \/ c.highlighted THEN c
    ELSE [c EXCEPT !.original = c.color,
                   !.color = IF color = ByAmount THEN Lighten(c.color) ELSE color,
                   !.highlighted = TRUE]

\* An unhighlight_objects that leaves the colour of the highlight
UnhighlightChildKeepColor(c) ==
    IF c.pinned \/ ~c.highlighted THEN c
    ELSE [c EXCEPT !.original = NoColor, !.highlighted = FALSE]

\* unhighlight_objects: material.color = material._original_color, then both
\* _original_color and _highlighted are deleted
UnhighlightChild(c) ==
    IF c.pinned \/ ~c.highlighted THEN c
    ELSE [c EXCEPT !.color = c.original, !.original = NoColor, !.highlighted = FALSE]

\* A setter of Viewer.selected that leaves the highlight colour on an id
\* that leaves the selection
RestoreChildNot(c) == c

\* The setter of Viewer.selected: an id that enters the selection keeps the
\* colour in _stored_color and is painted in the highlight colour; an id
\* that leaves it gets material.color = _stored_color
SelectChild(c) == [c EXCEPT !.stored = c.color, !.color = HighlightColor]
RestoreChild(c) == [c EXCEPT !.color = c.stored]

\* One step of an inner loop on one primitive
Do(step, color) == [do |-> step, color |-> color]
Step(step, c) ==
    CASE step.do = "hide"      -> HideChild(c)
      [] step.do = "unhide"    -> UnhideChild(c)
      [] step.do = "pin"       -> PinChild(c)
      [] step.do = "unpin"     -> UnpinChild(c)
      [] step.do = "recolor"   -> RecolorChild(c, step.color)
      [] step.do = "highlight" -> HighlightChild(c, step.color)
      [] step.do = "unhighlight" -> UnhighlightChild(c)
      [] step.do = "select"    -> SelectChild(c)
      [] step.do = "restore"   -> RestoreChild(c)

\* Take the step on the children of viewer v whose identity is in H. (A
\* reference to an object that has left the scene changes nothing the scene
\* shows.)
Modify(w, v, H, step) ==
    LET s == w.scene[v]
    IN  [w EXCEPT !.scene[v] =
            AsSeq([j \in 1..Len(s) |->
                IF s[j].oid # NoId /\ s[j].h \in H THEN Step(step, s[j]) ELSE s[j]])]

\* Viewer.hide_objects (decorated, bounds=True)
hide_objects(w, v, ids) ==
    LET r == Objects(w, v)
    IN  update_viewer(Modify(Warn(r.w, r.val, ids), v, KnownPrims(r.val, ids),
                             Do("hide", NoColor)), v, TRUE)

\* Viewer.hide_selected (decorated): self.hide_neurons(self.selected); the
\* class has no attribute hide_neurons, so the lookup raises
hide_selected(w, v) ==
    update_viewer([w EXCEPT !.exc = "AttributeError"], v, TRUE)

\* Viewer.unhide_objects (decorated, bounds=True); obj=None means every id
unhide_objects(w, v, obj) ==
    LET r == Objects(w, v)
        which == IF obj.given THEN obj.ids ELSE Ids(r.val)
    IN  update_viewer(Modify(Warn(r.w, r.val, which), v, KnownPrims(r.val, which),
                             Do("unhide", NoColor)), v, TRUE)

\* Viewer.pin_objects: not decorated
pin_objects(w, v, ids) ==
    LET r == Objects(w, v)
    IN  Modify(Warn(r.w, r.val, ids), v, KnownPrims(r.val, ids), Do("pin", NoColor))

\* Viewer.unpin_objects: not decorated; obj=None means every id
unpin_objects(w, v, obj) ==
    LET r == Objects(w, v)
        which == IF obj.given THEN obj.ids ELSE Ids(r.val)
    IN  Modify(Warn(r.w, r.val, which), v, KnownPrims(r.val, which), Do("unpin", NoColor))

\* The argument of set_colors: one colour for all objects, a dict from ids
\* to a colour, or something else
OneColor(color) == [kind |-> "single", ids |-> {}, color |-> color]
ColorMap(ids, color) == [kind |-> "dict", ids |-> ids, color |-> color]
BadColors == [kind |-> "other", ids |-> {}, color |-> NoColor]

\* Viewer.set_colors (decorated, bounds=False)
SetColorsBody(w, v, c) ==
    LET r == Objects(w, v)
        which == IF c.kind = "single" THEN IdSet(r.val) ELSE IdSet(r.val) \cap c.ids
        prims == UNION {Range(PrimsOf(r.val, o)) : o \in which}
    IN  IF c.kind = "other" THEN [r.w EXCEPT !.exc = "TypeError"]
        ELSE Modify(r.w, v, prims, Do("recolor", c.color))

set_colors(w, v, c) == update_viewer(SetColorsBody(w, v, c), v, FALSE)

\* Viewer.highlight_objects for a list of ids (strings): not decorated; an
\* id the mapping does not know raises TypeError and ends the loop
RECURSIVE HighlightLoop(_, _, _, _, _)
HighlightLoop(w, v, all, obs, color) ==
    IF obs = <<>> THEN w
    ELSE IF obs[1] \notin IdSet(all) THEN [w EXCEPT !.exc = "TypeError"]
    ELSE HighlightLoop(Modify(w, v, Range(PrimsOf(all, obs[1])),
                              Do("highlight", color)),
                       v, all, Tail(obs), color)

highlight_objects(w, v, obs, color) ==
    LET r == Objects(w, v)
    IN  HighlightLoop(r.w, v, r.val, obs, color)

\* Viewer.unhighlight_objects for a list of ids (strings) or None: not
\* decorated. None stands for the visuals that are highlighted, each of
\* which is taken as it is; an id the mapping does not know raises TypeError
\* and ends the loop
RECURSIVE UnhighlightLoop(_, _, _, _)
UnhighlightLoop(w, v, all, obs) ==
    IF obs = <<>> THEN w
    ELSE IF obs[1] \notin IdSet(all) THEN [w EXCEPT !.exc = "TypeError"]
    ELSE UnhighlightLoop(Modify(w, v, Range(PrimsOf(all, obs[1])),
                                Do("unhighlight", NoColor)),
                         v, all, Tail(obs))

unhighlight_objects(w, v, obj) ==
    LET lit == {c.h : c \in {x \in Range(Tagged(w.scene[v])) : x.highlighted}}
        r == Objects(w, v)
    IN  IF obj.given THEN UnhighlightLoop(r.w, v, r.val, obj.ids)
        ELSE Modify(r.w, v, lit, Do("unhighlight", NoColor))

\* The child of viewer v with identity h, if it is still in the scene
ChildAt(w, v, h) == {c \in Range(w.scene[v]) : c.oid # NoId /\ c.h = h}

\* The setter of Viewer.selected, first loop: for the primitives of an id
\* that leaves the selection, material.color = _stored_color
RECURSIVE RestoreLoop(_, _, _)
RestoreLoop(w, v, prims) ==
    IF prims = <<>> \/ w.exc # "none" THEN w
    ELSE IF \E c \in ChildAt(w, v, prims[1]) : c.stored = NoColor
         THEN [w EXCEPT !.exc = "AttributeError"]
    ELSE RestoreLoop(Modify(w, v, {prims[1]}, Do("restore", NoColor)),
                     v, Tail(prims))

RECURSIVE Deselect(_, _, _, _)
Deselect(w, v, objs, ids) ==
    IF ids = <<>> \/ w.exc # "none" THEN w
    ELSE IF ids[1] \notin IdSet(objs) THEN [w EXCEPT !.exc = "KeyError"]
    ELSE Deselect(RestoreLoop(w, v, PrimsOf(objs, ids[1])), v, objs, Tail(ids))

\* Second loop: the ids that enter the selection
RECURSIVE Select(_, _, _, _, _)
Select(w, v, objs, old, ids) ==
    IF ids = <<>> \/ w.exc # "none" THEN w
    ELSE IF ids[1] \in Range(old) THEN Select(w, v, objs, old, Tail(ids))
    ELSE IF ids[1] \notin IdSet(objs) THEN [w EXCEPT !.exc = "KeyError"]
    ELSE Select(Modify(w, v, Range(PrimsOf(objs, ids[1])), Do("select", NoColor)),
                v, objs, old, Tail(ids))

\* The setter of Viewer.selected: not decorated, ends with
\* update_helper(bounds=False); an exception leaves _selected as it was
set_selected(w, v, val) ==
    LET ids == IF val.given THEN val.ids ELSE <<>>
        r == Objects(w, v)
        old == w.selected[v]
        w1 == Deselect(r.w, v, r.val, SelectSeq(old, LAMBDA s : s \notin Range(ids)))
        w2 == Select(w1, v, r.val, old, ids)
    IN  IF w2.exc # "none" THEN w2
        ELSE update_helper([w2 EXCEPT !.selected[v] = ids], v, FALSE)


\* handle_object_event(event, viewer, actions): the id of the picked
\* primitive is looked up in viewer.objects; when it has one, the actions
\* are taken in the order of the handler's tests. "select" assigns the
\* selection without the id when it holds it, and with the id appended
\* otherwise.
EventActions ==
    <<"hide", "unhide", "highlight", "unhighlight", "pin", "unpin", "remove", "select">>

EventAct(w, v, id, a) ==
    CASE a = "hide"        -> hide_objects(w, v, <<id>>)
      [] a = "unhide"      -> unhide_objects(w, v, Given(<<id>>))
      [] a = "highlight"   -> highlight_objects(w, v, <<id>>, ByAmount)
      [] a = "unhighlight" -> unhighlight_objects(w, v, Given(<<id>>))
      [] a = "pin"         -> pin_objects(w, v, <<id>>)
      [] a = "unpin"       -> unpin_objects(w, v, Given(<<id>>))
      [] a = "remove"      -> remove_objects(w, v, {}, {id})
      [] a = "select"      ->
            IF id \in Range(w.selected[v])
            THEN set_selected(w, v, Given(SelectSeq(w.selected[v], LAMBDA i : i # id)))
            ELSE set_selected(w, v, Given(Append(w.selected[v], id)))

RECURSIVE EventLoop(_, _, _, _, _)
EventLoop(w, v, id, actions, todo) ==
    IF todo = <<>> \/ w.exc # "none" THEN w
    ELSE EventLoop(IF todo[1] \in actions THEN EventAct(w, v, id, todo[1]) ELSE w,
                   v, id, actions, Tail(todo))

\* The id under which viewer.objects holds the primitive h, or None
HoverId(objs, h) ==
    LET at == {j \in 1..Len(objs) : h \in Range(objs[j].prims)}
    IN  IF at = {} THEN None ELSE objs[Least(at)].oid

handle_object_event(w, v, h, actions) ==
    LET r == Objects(w, v)
        id == HoverId(r.val, h)
    IN  IF id = None THEN r.w ELSE EventLoop(r.w, v, id, actions, EventActions)

\* The handlers a viewer registers on its scene for "double_click": each
\* is a partial of handle_object_event bound to one action. value is
\* _on_double_click, handlers the functions registered (named by their
\* action), func the position of the one kept as self.__on_double_click_func.
MaxHandlers == 3
NoDoubleClick == [value |-> None, handlers |-> <<>>, func |-> 0]

\* getattr(self, "_on_double_click_func", None): inside class Viewer the
\* assignment self.__on_double_click_func = func writes the attribute
\* _Viewer__on_double_click_func, so no attribute of this name exists
OnDoubleClickFunc(d) == 0

\* scene.remove_event_handler(callback, "double_click"): a callback that is
\* not registered raises KeyError, which the setter passes over
RemoveEventHandler(handlers, callback) ==
    IF callback \in 1..Len(handlers)
    THEN AsSeq([j \in 1..(Len(handlers) - 1) |->
                   IF j < callback THEN handlers[j] ELSE handlers[j + 1]])
    ELSE handlers

\* The setter of Viewer.on_double_click
set_on_double_click(d, x) ==
    LET kept == RemoveEventHandler(d.handlers, OnDoubleClickFunc(d))
    IN  IF x \notin {None, "hide", "remove", "select"}
        THEN [d |-> d, exc |-> "ValueError"]
        ELSE IF x = d.value THEN [d |-> d, exc |-> "none"]
        ELSE IF x = None
        THEN [d |-> [d EXCEPT !.value = None, !.handlers = kept], exc |-> "none"]
        ELSE [d |-> [value |-> x, handlers |-> Append(kept, x),
                     func |-> Len(kept) + 1],
              exc |-> "none"]

\* The scene hands a double click on the primitive h to its handlers, one
\* after the other, in the order given
RECURSIVE DispatchDoubleClick(_, _, _, _)
DispatchDoubleClick(w, v, h, todo) ==
    IF todo = <<>> \/ w.exc # "none" THEN w
    ELSE DispatchDoubleClick(handle_object_event(w, v, h, {Head(todo)}), v, h,
                             Tail(todo))

(***************************************************************************)
(* viewer.py: animation callbacks                                          *)
(***************************************************************************)

MaxAnimations == 2
MaxFlagged == 1
FrameCycle == 2

\* The frames a message takes to fade once its time is up (1 / 0.02 in the
\* code) and the number of messages shown
FadeSteps == 2
MaxMessages == 2

\* The closure _fade_message that the i-th show_message with a duration makes
FadeName(i) == "_fade_message-" \o ToString(i)
FadeCallbacks == {FadeName(i) : i \in 1..MaxMessages}

\* The functions a caller registers. tick and late do nothing, boom raises,
\* spawn registers late, drop removes tick, quit removes itself.
Callbacks == {"tick", "boom", "spawn", "drop", "quit", "late"} \cup FadeCallbacks

\* No message was shown yet: no attribute _message_text. shows counts the
\* calls that showed a text, count those of them that made a closure.
NoMessage == [attr |-> FALSE, shown |-> FALSE, opacity |-> 0, elapsed |-> FALSE,
              count |-> 0, shows |-> 0]

\* An item of _animations: the function and (on_error, run_every,
\* req_render); run_every is 0 for None
Animation(f, on_error, run_every, req_render) ==
    [f |-> f, on_error |-> on_error, run_every |-> run_every, req_render |-> req_render]

\* An entry of _animations_flagged_for_removal: a function, or the position
\* an int stands for
ByFunc(f) == [k |-> "func", f |-> f, i |-> 0]
ByIndex(i) == [k |-> "index", f |-> "", i |-> i]

\* The animations of viewer v as one call works on them: the dict, the
\* flagged entries, the frame counter (modulo FrameCycle), the stale flag,
\* the exception raised so far and the functions called so far
Anim(v) ==
    [fns |-> animations[v].fns, flagged |-> animations[v].flagged,
     frame |-> animations[v].frame, stale |-> render_stale[v], exc |-> "none",
     ran |-> <<>>, msg |-> message[v], mode |-> render_trigger[v], rendered |-> FALSE]

\* d[key] = value and d.pop(key) on a dict kept in insertion order
HasKey(fns, f) == \E j \in 1..Len(fns) : fns[j].f = f
DictSet(fns, e) ==
    IF HasKey(fns, e.f)
    THEN AsSeq([j \in 1..Len(fns) |-> IF fns[j].f = e.f THEN e ELSE fns[j]])
    ELSE Append(fns, e)
DictPop(fns, f) == SelectSeq(fns, LAMBDA e : e.f # f)

\* Viewer.add_animation
add_animation(a, x, on_error, run_every, req_render) ==
    IF x \notin Callbacks THEN [a EXCEPT !.exc = "TypeError"]
    ELSE IF on_error \notin {"remove", "ignore", "raise"}
    THEN [a EXCEPT !.exc = "AssertionError"]
    ELSE [a EXCEPT !.fns = DictSet(@, Animation(x, on_error, run_every, req_render))]

\* Viewer.remove_animation: x is a function or an int
remove_animation(a, x) ==
    IF x.k = "func" THEN [a EXCEPT !.flagged = Append(@, ByFunc(x.f))]
    ELSE IF x.i >= Len(a.fns) THEN [a EXCEPT !.exc = "IndexError"]
    ELSE [a EXCEPT !.flagged = Append(@, ByFunc(a.fns[x.i + 1].f))]

\* The closure _fade_message of show_message: it takes itself out when the
\* message is gone; once _fade_out_time has passed it lowers the opacity by
\* one step per call, and at opacity 0 it takes the text out of the overlay
\* scene and itself out of the animations.
fade_message(a, f) ==
    LET o == IF a.msg.elapsed /\ a.msg.opacity > 0 THEN a.msg.opacity - 1
             ELSE a.msg.opacity
        a1 == [a EXCEPT !.msg.opacity = o]
    IN  IF ~a.msg.attr THEN remove_animation(a, ByFunc(f))
        ELSE IF o <= 0
        THEN remove_animation([a1 EXCEPT !.msg.shown = FALSE], ByFunc(f))
        ELSE a1

\* A show_message that registers no function to fade the message
show_message_forever(a, text, duration) ==
    IF text = None /\ a.msg.attr
    THEN [a EXCEPT !.msg.attr = FALSE, !.msg.shown = FALSE]
    ELSE [a EXCEPT !.msg.attr = TRUE, !.msg.shown = TRUE, !.msg.opacity = FadeSteps,
                   !.msg.shows = @ + 1]

\* Viewer.show_message(message, duration=duration), with the default
\* position: None takes the message away; a text is put into the overlay
\* scene at full opacity, and with a duration (in seconds, not 0)
\* _fade_out_time is set and a new closure _fade_message is registered.
show_message(a, text, duration) ==
    LET a1 == [a EXCEPT !.msg.attr = TRUE, !.msg.shown = TRUE,
                        !.msg.opacity = FadeSteps, !.msg.shows = @ + 1]
        a2 == [a1 EXCEPT !.msg.elapsed = FALSE, !.msg.count = @ + 1]
    IN  IF text = None /\ a.msg.attr
        THEN [a EXCEPT !.msg.attr = FALSE, !.msg.shown = FALSE]
        ELSE IF duration = 0 THEN a1
        ELSE add_animation(a2, FadeName(a2.msg.count), "remove", 0, TRUE)

\* func(): what the functions do to the viewer that runs them
CallFunc(a, f) ==
    CASE f \in FadeCallbacks -> fade_message(a, f)
      [] f = "boom"  -> [a EXCEPT !.exc = "ValueError"]
      [] f = "spawn" -> add_animation(a, "late", "remove", 0, TRUE)
      [] f = "drop"  -> remove_animation(a, ByFunc("tick"))
      [] f = "quit"  -> remove_animation(a, ByFunc("quit"))
      [] OTHER       -> a

\* One round of the loop of _animate, for the item at position i (from 0)
RunItem(a, e, i) ==
    LET a1 == CallFunc([a EXCEPT !.ran = Append(@, e.f)], e.f)
    IN  IF e.run_every # 0 /\ a.frame % e.run_every # 0 THEN a
        ELSE IF a1.exc = "none"
        THEN IF e.req_render THEN [a1 EXCEPT !.stale = TRUE] ELSE a1
        ELSE IF e.on_error = "raise" THEN a1
        ELSE IF e.on_error = "remove"
        THEN [a1 EXCEPT !.exc = "none", !.flagged = Append(@, ByIndex(i))]
        ELSE [a1 EXCEPT !.exc = "none"]

\* A loop that walks the dict itself instead of a copy of its items
RECURSIVE AnimateLoopLive(_, _, _)
AnimateLoopLive(a, items, i) ==
    IF i >= Len(a.fns) \/ a.exc # "none" THEN a
    ELSE AnimateLoopLive(RunItem(a, a.fns[i + 1], i), items, i + 1)

\* for i, (func, ...) in enumerate(list(self._animations.items()))
RECURSIVE AnimateLoop(_, _, _)
AnimateLoop(a, items, i) ==
    IF i >= Len(items) \/ a.exc # "none" THEN a
    ELSE AnimateLoop(RunItem(a, items[i + 1], i), items, i + 1)

\* for f in flagged[::-1]: self._animations.pop(f): a KeyError for a key
\* the dict does not hold, as for every int
RECURSIVE PopFlagged(_, _)
PopFlagged(a, j) ==
    IF j = 0 \/ a.exc # "none" THEN a
    ELSE LET x == a.flagged[j]
         IN  IF x.k = "index" \/ ~HasKey(a.fns, x.f)
             THEN [a EXCEPT !.exc = "KeyError"]
             ELSE PopFlagged([a EXCEPT !.fns = DictPop(@, x.f)], j - 1)

\* An _animate that renders in every frame that returns, whatever the flag
animate_always(a) ==
    LET a1 == [a EXCEPT !.frame = (@ + 1) % FrameCycle]
        a2 == AnimateLoop(a1, a1.fns, 0)
        a3 == PopFlagged(a2, Len(a2.flagged))
    IN  IF a2.exc # "none" THEN a2
        ELSE IF a3.exc # "none" THEN a3
        ELSE [a3 EXCEPT !.flagged = <<>>, !.stale = FALSE, !.rendered = TRUE]

\* Viewer._animate: the functions, the removals, then the rendering, which
\* resets the stale flag; with render_trigger "reactive" a frame whose
\* flag is not set returns before it renders
animate(a) ==
    LET a1 == [a EXCEPT !.frame = (@ + 1) % FrameCycle]
        a2 == AnimateLoop(a1, a1.fns, 0)
        a3 == PopFlagged(a2, Len(a2.flagged))
        a4 == [a3 EXCEPT !.flagged = <<>>]
    IN  IF a2.exc # "none" THEN a2
        ELSE IF a3.exc # "none" THEN a3
        ELSE IF a.mode = "reactive" /\ ~a4.stale THEN a4
        ELSE [a4 EXCEPT !.stale = FALSE, !.rendered = TRUE]

\* The setter of Viewer.render_trigger
RenderModes == {"continuous", "active_window", "reactive"}
set_render_trigger(old, mode) ==
    IF mode \notin RenderModes THEN [mode |-> old, exc |-> "ValueError"]
    ELSE [mode |-> mode, exc |-> "none"]


(***************************************************************************)
(* selection.py: the selection gizmo                                       *)
(***************************************************************************)

\* The viewport is ViewSize by ViewSize logical pixels. World coordinates of
\* the overlay (NDC) camera are kept in units of 1/ViewSize.
ViewSize == 4

\* The primitives of one object are at most MaxPrimitives
MaxPrimitives == 2

\* A point; nan marks a break point of a line (all coordinates NaN)
Pt(x, y) == [x |-> x, y |-> y, nan |-> FALSE]
NaN == [x |-> 0, y |-> 0, nan |-> TRUE]

\* BaseSelectionGizmo.__init__: modifier is "Shift", "Ctrl", "Alt" or None;
\* callback stands for callback_after being set; sel.set is FALSE while
\* _sel_info is the empty dict
NewGizmo(modifier, leave, force_square, callback) ==
    [modifier |-> modifier, leave |-> leave, force_square |-> force_square,
     callback |-> callback, disable |-> FALSE, active |-> FALSE, visible |-> FALSE,
     sel |-> [set |-> FALSE, start |-> Pt(0, 0), end |-> Pt(0, 0)]]

\* A pointer event: its type, its position on the screen and the modifier
\* keys held
Pointer(type, pos, modifiers) == [type |-> type, pos |-> pos, modifiers |-> modifiers]

\* viewport.is_inside
is_inside(pos) == pos.x \in 0..ViewSize /\ pos.y \in 0..ViewSize

\* BaseSelectionGizmo._screen_to_world for the viewport at the origin:
\* x/w*2 - 1 and -(y/h*2 - 1), unprojected by the NDC camera
screen_to_world(pos) == Pt(2 * pos.x - ViewSize, ViewSize - 2 * pos.y)

\* The gizmo as one handler works on it: exc is the exception raised,
\* invoked the number of calls of callback_after
Handling(g) == [g |-> g, exc |-> "none", invoked |-> 0]

\* BaseSelectionGizmo._selection_start
selection_start(h, event) ==
    IF ~is_inside(event.pos) THEN h
    ELSE LET p == screen_to_world(event.pos)
         IN  [h EXCEPT !.g.visible = TRUE, !.g.active = TRUE,
                       !.g.sel = [set |-> TRUE, start |-> p, end |-> p]]

\* BaseSelectionGizmo._selection_stop
selection_stop(h, event) ==
    LET h1 == [h EXCEPT !.g.active = FALSE,
                        !.g.visible = IF h.g.leave THEN @ ELSE FALSE]
    IN  IF h.g.callback THEN [h1 EXCEPT !.invoked = @ + 1] ELSE h1

\* np.sign and abs
Sign(n) == IF n > 0 THEN 1 ELSE IF n < 0 THEN -1 ELSE 0
Abs(n) == IF n < 0 THEN -n ELSE n
Min(a, b) == IF a <= b THEN a ELSE b
Max(a, b) == IF a >= b THEN a ELSE b

\* BaseSelectionGizmo._selection_move: with force_square it reads
\* self._sel, an attribute nothing sets
selection_move(h, event) ==
    IF ~is_inside(event.pos) THEN h
    ELSE IF h.g.force_square THEN [h EXCEPT !.exc = "AttributeError"]
    ELSE [h EXCEPT !.g.sel.end = screen_to_world(event.pos)]

\* A _process_event that ends a drag on every pointer_up
process_event_any_up(h, event) ==
    LET has_mod == h.g.modifier = None \/ h.g.modifier \in event.modifiers
    IN  IF h.g.disable THEN h
        ELSE IF event.type = "pointer_down" /\ has_mod THEN selection_start(h, event)
        ELSE IF event.type = "pointer_up" THEN selection_stop(h, event)
        ELSE IF event.type = "pointer_move" /\ h.g.active THEN selection_move(h, event)
        ELSE h

\* BaseSelectionGizmo._process_event
process_event(h, event) ==
    LET has_mod == h.g.modifier = None \/ h.g.modifier \in event.modifiers
    IN  IF h.g.disable THEN h
        ELSE IF event.type = "pointer_down" /\ has_mod THEN selection_start(h, event)
        ELSE IF event.type = "pointer_up" /\ h.g.active THEN selection_stop(h, event)
        ELSE IF event.type = "pointer_move" /\ h.g.active THEN selection_move(h, event)
        ELSE h

\* Bounds read from _sel_info as it is: start for the low corner
gizmo_bounds_unsorted(g) == [lo |-> g.sel.start, hi |-> g.sel.end]

\* BaseSelectionGizmo.bounds: the sorted corners of _sel_info
gizmo_bounds(g) ==
    [lo |-> Pt(Min(g.sel.start.x, g.sel.end.x), Min(g.sel.start.y, g.sel.end.y)),
     hi |-> Pt(Max(g.sel.start.x, g.sel.end.x), Max(g.sel.start.y, g.sel.end.y))]

\* SelectionGizmo.is_data_in_selection_box: the mask over the projected
\* points; a comparison with NaN is false
is_data_in_selection_box(g, data) ==
    LET b == gizmo_bounds(g)
    IN  AsSeq([j \in 1..Len(data) |->
            /\ g.sel.set
            /\ ~data[j].nan
            /\ data[j].x >= b.lo.x /\ data[j].y >= b.lo.y
            /\ data[j].x <= b.hi.x /\ data[j].y <= b.hi.y])

\* np.any and np.all of a mask, np.all of the mask at the points kept
AnyOf(mask) == \E j \in 1..Len(mask) : mask[j]
AllOf(mask) == \A j \in 1..Len(mask) : mask[j]
AllAt(mask, keep) == \A j \in 1..Len(mask) : keep[j] => mask[j]

\* The body of the loop of find_selected_objects for one primitive: kind is
\* "points", "line" or "mesh", anything else is not supported
ClassifyPrimitive(g, ob) ==
    LET mask == is_data_in_selection_box(g, ob.data)
        not_nan == AsSeq([j \in 1..Len(ob.data) |-> ~ob.data[j].nan])
    IN  IF ob.kind \notin {"mesh", "points", "line"}
        THEN [clipped |-> "None", contained |-> "None"]
        ELSE [clipped |-> ToString(AnyOf(mask)),
              contained |-> IF ob.kind = "line" THEN ToString(AllAt(mask, not_nan))
                            ELSE ToString(AllOf(mask))]

\* SelectionGizmo.find_selected_objects for the primitives of one object
RECURSIVE ClassifyLoop(_, _, _)
ClassifyLoop(g, obs, acc) ==
    IF obs = <<>> THEN acc
    ELSE LET r == ClassifyPrimitive(g, obs[1])
             contained == IF r.contained = "None" THEN "None"
                          ELSE IF r.contained = "FALSE" THEN "FALSE"
                          ELSE acc.contained
             clipped == IF r.clipped = "TRUE" THEN "TRUE" ELSE acc.clipped
         IN  ClassifyLoop(g, Tail(obs),
                          [clipped |-> clipped, contained |-> contained,
                           objects |-> Append(acc.objects, r)])

find_selected_objects(g, obs) ==
    IF ~g.sel.set THEN [clipped |-> "None", contained |-> "None", objects |-> <<>>]
    ELSE ClassifyLoop(g, obs, [clipped |-> "FALSE", contained |-> "TRUE",
                               objects |-> <<>>])
(***************************************************************************)
(* Calls made on a viewer                                                  *)
(***************************************************************************)

\* The tagged children of viewer v that are not the bounding box
Content(w, v) == SelectSeq(Tagged(w.scene[v]), LAMBDA c : c.otype # "boundingbox")

\* The model follows a call only while the scene stays within a bound
WithinBounds(w, v, cap) == Len(Content(w, v)) <= cap

\* A call op(args) on viewer v that left the world w0: the variables after
\* it. `call` keeps its name, its viewer, its arguments, the exception it
\* raised, the ids it logged a warning for and the number of children it
\* added to the scene.
CommitWithin(cap, op, v, args, w0) ==
    \E w \in {Normalize(w0)} :
        /\ WithinBounds(w, v, cap)
        /\ scene' = w.scene
        /\ objCache' = w.cache
        /\ show_bounds' = w.show_bounds
        /\ render_stale' = w.stale
        /\ selected' = w.selected
        /\ lastRead' = [lastRead EXCEPT ![v].clean = FALSE]
        /\ palette_index' = w.palette
        /\ call' = [op |-> op, viewer |-> v, args |-> args, exc |-> w.exc,
                    warned |-> w.warn, trace |-> w.log,
                    added |-> Len(w.scene[v]) - Len(scene[v])]
        /\ UNCHANGED <<convVars, animations, gizmo, uiVars>>

Commit(op, v, args, w0) == CommitWithin(MaxChildren, op, v, args, w0)

\* A caller reads viewer.objects and keeps the structure
ReadObjects(v) ==
    \E r \in {Objects(World, v)} :
        /\ objCache' = r.w.cache
        /\ lastRead' = [lastRead EXCEPT ![v] = [ident |-> r.ident, valid |-> TRUE,
                                                clean |-> TRUE]]
        /\ call' = [op |-> "objects", viewer |-> v, val |-> r.val, ident |-> r.ident,
                    prev |-> lastRead[v]]
        /\ UNCHANGED <<convVars, scene, show_bounds, render_stale, selected,
                       palette_index, animations, gizmo, uiVars>>

\* Viewer.visible: the ids whose first primitive is visible (a read-only query)
VisibleIds(w, v, objs) ==
    SelectSeq(Ids(objs), LAMBDA o :
        \E c \in Range(w.scene[v]) : c.h = PrimsOf(objs, o)[1] /\ c.visible)

QueryVisible(v) ==
    \E r \in {Objects(World, v)} :
        /\ objCache' = r.w.cache
        /\ call' = [op |-> "visible", viewer |-> v, val |-> VisibleIds(r.w, v, r.val)]
        /\ UNCHANGED <<convVars, scene, show_bounds, render_stale, selected, lastRead,
                       palette_index, animations, gizmo, uiVars>>

Add(v, x, name, clr) ==
    /\ v \in Viewers
    /\ Commit("add", v, [x |-> x, name |-> name, clear |-> clr],
              add(World, v, x, name, TRUE, clr, NoColor))

\* Viewer.add with its center flag and a color keyword (NoColor: none)
AddWith(v, x, name, center, color) ==
    /\ v \in Viewers
    /\ Commit("add", v, [x |-> x, name |-> name, clear |-> FALSE, center |-> center,
                         color |-> color],
              add(World, v, x, name, center, FALSE, color))

AddMesh(v, a, name) ==
    /\ v \in Viewers
    /\ Commit("add_mesh", v, [x |-> a, name |-> name], add_mesh(World, v, a, name))

\* add_mesh on a viewer that may hold MaxSeries primitives
AddMeshToSeries(v, a, name) ==
    /\ v \in Viewers
    /\ CommitWithin(MaxSeries, "add_mesh", v, [x |-> a, name |-> name],
                    add_mesh(World, v, a, name))

AddPoints(v, a, name) ==
    /\ v \in Viewers
    /\ Commit("add_points", v, [x |-> a, name |-> name], add_points(World, v, a, name))

AddLines(v, a, name) ==
    /\ v \in Viewers
    /\ Commit("add_lines", v, [x |-> a, name |-> name], add_lines(World, v, a, name))

AddVolume(v, a, name) ==
    /\ v \in Viewers
    /\ Commit("add_volume", v, [x |-> a, name |-> name], add_volume(World, v, a, name))

RemoveObjects(v, ids) ==
    /\ v \in Viewers
    /\ Commit("remove_objects", v, [ids |-> ids], remove_objects(World, v, {}, ids))

\* remove_objects given primitives (by identity), ids, or a mix of both
RemoveTargets(v, prims, ids) ==
    /\ v \in Viewers
    /\ Commit("remove_objects", v, [ids |-> ids, prims |-> prims],
              remove_objects(World, v, prims, ids))

\* remove_objects on a viewer that may hold MaxSeries primitives
RemoveFromSeries(v, ids) ==
    /\ v \in Viewers
    /\ CommitWithin(MaxSeries, "remove_objects", v, [ids |-> ids],
                    remove_objects(World, v, {}, ids))

Clear(v) ==
    /\ v \in Viewers
    /\ Commit("clear", v, <<>>, clear(World, v))

Pop(v, N) ==
    /\ v \in Viewers
    /\ Commit("pop", v, [N |-> N], pop(World, v, N))

SetShowBounds(v, b) ==
    /\ v \in Viewers
    /\ Commit("show_bounds", v, [b |-> b], set_show_bounds(World, v, b))

ToggleBounds(v) ==
    /\ v \in Viewers
    /\ Commit("toggle_bounds", v, <<>>, toggle_bounds(World, v))

UpdateBounds(v) ==
    /\ v \in Viewers
    /\ Commit("update_bounds", v, <<>>, update_bounds(World, v))

RemoveBounds(v) ==
    /\ v \in Viewers
    /\ Commit("remove_bounds", v, <<>>, remove_bounds(World, v))

HideObjects(v, ids) ==
    /\ v \in Viewers
    /\ Commit("hide_objects", v, [ids |-> ids], hide_objects(World, v, ids))

HideSelected(v) ==
    /\ v \in Viewers
    /\ Commit("hide_selected", v, <<>>, hide_selected(World, v))

UnhideObjects(v, obj) ==
    /\ v \in Viewers
    /\ Commit("unhide_objects", v, [obj |-> obj], unhide_objects(World, v, obj))

PinObjects(v, ids) ==
    /\ v \in Viewers
    /\ Commit("pin_objects", v, [ids |-> ids], pin_objects(World, v, ids))

UnpinObjects(v, obj) ==
    /\ v \in Viewers
    /\ Commit("unpin_objects", v, [obj |-> obj], unpin_objects(World, v, obj))

SetColors(v, c) ==
    /\ v \in Viewers
    /\ Commit("set_colors", v, [c |-> c], set_colors(World, v, c))

HighlightObjects(v, obs, color) ==
    /\ v \in Viewers
    /\ Commit("highlight_objects", v, [ids |-> obs, color |-> color],
              highlight_objects(World, v, obs, color))

SetSelected(v, val) ==
    /\ v \in Viewers
    /\ Commit("selected", v, [val |-> val], set_selected(World, v, val))


UnhighlightObjects(v, obj) ==
    /\ v \in Viewers
    /\ Commit("unhighlight_objects", v, [obj |-> obj], unhighlight_objects(World, v, obj))

\* A call on the animations of viewer v that left them as a
CommitAnim(op, v, args, result) ==
    \E a \in {result} :
       /\ Len(a.fns) <= MaxAnimations
       /\ Len(a.flagged) <= MaxFlagged
       /\ animations' = [animations EXCEPT ![v] = [fns |-> a.fns, flagged |-> a.flagged,
                                                   frame |-> a.frame]]
       /\ render_stale' = [render_stale EXCEPT ![v] = a.stale]
       /\ call' = [op |-> op, viewer |-> v, args |-> args, exc |-> a.exc, ran |-> a.ran,
                   before |-> animations[v], rendered |-> a.rendered,
                   was_stale |-> render_stale[v]]
       /\ message' = [message EXCEPT ![v] = a.msg]
       /\ UNCHANGED <<convVars, scene, objCache, show_bounds, selected, lastRead,
                      palette_index, gizmo, render_trigger, double_click>>

AddAnimation(v, x, on_error, run_every) ==
    /\ v \in Viewers
    /\ CommitAnim("add_animation", v, [x |-> x, on_error |-> on_error,
                                       run_every |-> run_every],
                  add_animation(Anim(v), x, on_error, run_every, TRUE))

\* add_animation(x, on_error=on_error, run_every=run_every, req_render=req_render)
AddAnimationRender(v, x, on_error, run_every, req_render) ==
    /\ v \in Viewers
    /\ CommitAnim("add_animation", v, [x |-> x, on_error |-> on_error,
                                       run_every |-> run_every],
                  add_animation(Anim(v), x, on_error, run_every, req_render))

RemoveAnimation(v, x) ==
    /\ v \in Viewers
    /\ CommitAnim("remove_animation", v, [x |-> x], remove_animation(Anim(v), x))

\* One frame
Animate(v) ==
    /\ v \in Viewers
    /\ CommitAnim("_animate", v, [x |-> ""], animate(Anim(v)))

\* Viewer.show_message; a message is taken away (None) only once one exists
ShowMessage(v, text, duration) ==
    /\ v \in Viewers
    /\ text = None => message[v].attr
    /\ text # None => message[v].shows < MaxMessages
    /\ CommitAnim("show_message", v, [x |-> text, duration |-> duration],
                  show_message(Anim(v), text, duration))

\* time.time() passes _fade_out_time
Elapse(v) ==
    /\ v \in Viewers
    /\ message[v].count > 0 /\ ~message[v].elapsed
    /\ message' = [message EXCEPT ![v].elapsed = TRUE]
    /\ call' = [op |-> "time", viewer |-> v]
    /\ UNCHANGED <<convVars, scene, objCache, show_bounds, render_stale, selected,
                   lastRead, palette_index, animations, gizmo, render_trigger,
                   double_click>>

\* viewer.render_trigger = mode
SetRenderTrigger(v, mode) ==
    /\ v \in Viewers
    /\ \E r \in {set_render_trigger(render_trigger[v], mode)} :
          /\ render_trigger' = [render_trigger EXCEPT ![v] = r.mode]
          /\ call' = [op |-> "render_trigger", viewer |-> v, args |-> [x |-> mode],
                      exc |-> r.exc]
    /\ UNCHANGED <<convVars, scene, objCache, show_bounds, render_stale, selected,
                   lastRead, palette_index, animations, gizmo, message, double_click>>

\* The renderer gets a pointer_down, pointer_move, pointer_up or wheel
\* event: in a reactive viewer _set_stale_func is registered for it
RendererEvent(v) ==
    /\ v \in Viewers
    /\ render_stale' = [render_stale EXCEPT
                           ![v] = IF render_trigger[v] = "reactive" THEN TRUE ELSE @]
    /\ call' = [op |-> "renderer event", viewer |-> v, exc |-> "none"]
    /\ UNCHANGED <<convVars, scene, objCache, show_bounds, selected, lastRead,
                   palette_index, animations, gizmo, uiVars>>

\* A call on the gizmo
CommitGizmo(op, args, h, result) ==
    /\ gizmo' = h.g
    /\ call' = [op |-> op, args |-> args, exc |-> h.exc, invoked |-> h.invoked,
                before |-> gizmo, result |-> result]
    /\ UNCHANGED <<convVars, scene, objCache, show_bounds, render_stale, selected,
                   lastRead, palette_index, animations, uiVars>>

NoResult == [clipped |-> "None", contained |-> "None", objects |-> <<>>]

\* A new gizmo takes the place of the old one
CreateGizmo(modifier, leave, force_square, callback) ==
    /\ modifier \in {"Shift", "Ctrl", "Alt", None}
    /\ CommitGizmo("SelectionGizmo", [modifier |-> modifier],
                Handling(NewGizmo(modifier, leave, force_square, callback)), NoResult)

\* gizmo._disable = b
SetDisable(b) ==
    /\ b \in BOOLEAN
    /\ CommitGizmo("disable", [b |-> b], Handling([gizmo EXCEPT !.disable = b]), NoResult)

\* The renderer hands a pointer event to the gizmo
PointerEvent(event) ==
    /\ event.type \in {"pointer_down", "pointer_move", "pointer_up"}
    /\ CommitGizmo("_process_event", event, process_event(Handling(gizmo), event),
                   NoResult)

\* find_selected_objects, for an object with these primitives
FindSelectedObjects(obs) ==
    /\ Len(obs) <= MaxPrimitives
    /\ CommitGizmo("find_selected_objects", [obs |-> obs], Handling(gizmo),
                   find_selected_objects(gizmo, obs))

\* A pointer event on the j-th child of the scene of viewer v, bound to
\* the given actions
ObjectEvent(v, j, actions) ==
    /\ v \in Viewers
    /\ j \in 1..Len(scene[v])
    /\ scene[v][j].oid # NoId
    /\ Commit("event", v, [id |-> scene[v][j].oid, actions |-> actions],
              handle_object_event(World, v, scene[v][j].h, actions))

\* A caller that makes several calls one after the other: highlight_objects,
\* unhighlight_objects, assignments of the selection and pointer events on
\* the j-th child; the first exception ends the sequence
Highlight(ids, color) ==
    [m |-> "highlight_objects", obj |-> Given(ids), color |-> color, at |-> 0]
Unhighlight(obj) ==
    [m |-> "unhighlight_objects", obj |-> obj, color |-> NoColor, at |-> 0]
Assign(val) == [m |-> "selected", obj |-> val, color |-> NoColor, at |-> 0]
Click(j) == [m |-> "select event", obj |-> NotGiven, color |-> NoColor, at |-> j]

OneCall(w, v, c) ==
    CASE c.m = "highlight_objects"   -> highlight_objects(w, v, c.obj.ids, c.color)
      [] c.m = "unhighlight_objects" -> unhighlight_objects(w, v, c.obj)
      [] c.m = "selected"            -> set_selected(w, v, c.obj)
      [] c.m = "select event"        ->
            handle_object_event(w, v, w.scene[v][c.at].h, {"select"})

RECURSIVE CallsInTurn(_, _, _)
CallsInTurn(w, v, calls) ==
    IF calls = <<>> \/ w.exc # "none" THEN w
    ELSE CallsInTurn(OneCall(w, v, calls[1]), v, Tail(calls))

RunCalls(v, calls) ==
    /\ v \in Viewers
    /\ \A i \in 1..Len(calls) :
          calls[i].m = "select event" =>
             (calls[i].at \in 1..Len(scene[v]) /\ scene[v][calls[i].at].oid # NoId)
    /\ Commit("calls", v, [calls |-> calls], CallsInTurn(World, v, calls))

\* viewer.on_double_click = x
SetOnDoubleClick(v, x) ==
    /\ v \in Viewers
    /\ Len(double_click[v].handlers) < MaxHandlers
    /\ \E r \in {set_on_double_click(double_click[v], x)} :
          /\ double_click' = [double_click EXCEPT ![v] = r.d]
          /\ call' = [op |-> "on_double_click", viewer |-> v, args |-> [x |-> x],
                      exc |-> r.exc]
    /\ UNCHANGED <<convVars, scene, objCache, show_bounds, render_stale, selected,
                   lastRead, palette_index, animations, gizmo, render_trigger,
                   message>>

\* The orders in which n handlers kept in a set may be called
Orders(n) == {p \in [1..n -> 1..n] : \A i, j \in 1..n : p[i] = p[j] => i = j}

\* A double click on the j-th child of the scene of viewer v
DoubleClick(v, j) ==
    /\ v \in Viewers
    /\ j \in 1..Len(scene[v])
    /\ scene[v][j].oid # NoId
    /\ \E p \in Orders(Len(double_click[v].handlers)) :
          Commit("double_click", v, [id |-> scene[v][j].oid, at |-> j],
                 DispatchDoubleClick(World, v, scene[v][j].h,
                     AsSeq([i \in 1..Len(double_click[v].handlers) |->
                               double_click[v].handlers[p[i]]])))
(***************************************************************************)
(* Specifications                                                          *)
(***************************************************************************)

\* The viewers as constructed: the default scene, nothing cached or selected
ViewInit ==
    /\ scene = [v \in Viewers |-> InitialChildren]
    /\ objCache = EmptyCache
    /\ show_bounds = [v \in Viewers |-> FALSE]
    /\ render_stale = [v \in Viewers |-> FALSE]
    /\ selected = [v \in Viewers |-> <<>>]
    /\ lastRead = [v \in Viewers |-> [ident |-> 0, valid |-> FALSE, clean |-> FALSE]]
    /\ palette_index = [v \in Viewers |-> 0]
    /\ animations = [v \in Viewers |-> [fns |-> <<>>, flagged |-> <<>>, frame |-> 0]]
    /\ gizmo = NewGizmo("Shift", FALSE, FALSE, FALSE)
    /\ render_trigger = [v \in Viewers |-> "continuous"]
    /\ message = [v \in Viewers |-> NoMessage]
    /\ double_click = [v \in Viewers |-> NoDoubleClick]

Init ==
    /\ CONVERTERS = BuiltinItems
    /\ nreg = 0
    /\ call = NoCall
    /\ ViewInit

\* The registry: registrations and lookups
ConvNext ==
    \/ \E t \in MatcherInputs, c \in HandlerInputs, ins \in InsertInputs :
          register_converter(t, c, ins)
    \/ \E t \in Atoms, rm \in BOOLEAN : GetConverterCall(t, rm)

SpecConv == Init /\ [][ConvNext]_vars

\* Values given to Viewer.add: single values with and without a converter,
\* and batches of them
AddInputs == {Atom("trimesh_obj"), Atom("text"), Batch(<<>>),
              Batch(<<Atom("points_arr"), Atom("trimesh_obj")>>)}

NameInputs == {None, "A"}

\* One viewer: every call that changes the set of children, and reads of
\* the object index
IndexNext ==
    \/ ReadObjects("v1")
    \/ \E x \in AddInputs, name \in NameInputs, clr \in BOOLEAN : Add("v1", x, name, clr)
    \/ \E a \in {"trimesh_obj", "text"}, name \in NameInputs : AddMesh("v1", a, name)
    \/ AddPoints("v1", "points_arr", "A")
    \/ AddLines("v1", "points_arr", "A")
    \/ AddVolume("v1", "volume_arr", "A")
    \/ \E o \in {c.oid : c \in Range(Tagged(scene["v1"]))} \cup {"ghost"} :
          RemoveObjects("v1", {o})
    \/ Clear("v1")
    \/ \E N \in 0..2 : Pop("v1", N)
    \/ \E b \in BOOLEAN : SetShowBounds("v1", b)
    \/ ToggleBounds("v1")
    \/ UpdateBounds("v1")
    \/ RemoveBounds("v1")

SpecIndex == Init /\ [][IndexNext]_vars

\* Two viewers: additions, removals, reads of the index and read-only queries
CacheNext ==
    \E v \in {"v1", "v2"} :
        \/ ReadObjects(v)
        \/ QueryVisible(v)
        \/ \E name \in NameInputs : AddMesh(v, "trimesh_obj", name)
        \/ Clear(v)

SpecCache == Init /\ [][CacheNext]_vars


\* Registrations of matchers for values the shipped rules do not match,
\* and Viewer.add of matched and unmatched values and of batches
UnmatchedInputs == {Atom("text"), Atom("flag"), Atom("trimesh_obj"), Batch(<<>>),
                    Batch(<<Atom("flag"), Atom("trimesh_obj")>>)}

AddNext ==
    \/ \E t \in {"flag", "is_truthy", "is_exiting"}, insert \in {"first", "last"} :
          register_converter(t, "h_user", insert)
    \/ \E x \in UnmatchedInputs, clr \in BOOLEAN : Add("v1", x, None, clr)

SpecAdd == Init /\ [][AddNext]_vars

\* One viewer, to which one object A of MaxChildren primitives is added, and the
\* calls that change what its primitives show
PinIdLists == {<<"A">>, <<"ghost">>}
Optional(lists) == {Given(ids) : ids \in lists} \cup {NotGiven}
Meshes == Batch(AsSeq([i \in 1..MaxChildren |-> Atom("trimesh_obj")]))

PinNext ==
    \/ Tagged(scene["v1"]) = <<>> /\ Add("v1", Meshes, "A", FALSE)
    \/ \E ids \in PinIdLists : HideObjects("v1", ids)
    \/ \E obj \in Optional(PinIdLists) : UnhideObjects("v1", obj)
    \/ \E ids \in PinIdLists : PinObjects("v1", ids)
    \/ \E obj \in Optional(PinIdLists) : UnpinObjects("v1", obj)
    \/ \E c \in {OneColor(Color("red", 5)), ColorMap({"A"}, Color("red", 5)), BadColors} :
          SetColors("v1", c)
    \/ \E ids \in PinIdLists : HighlightObjects("v1", ids, ByAmount)
    \/ \E val \in Optional({<<"A">>}) : SetSelected("v1", val)

SpecPin == Init /\ [][PinNext]_vars

\* One viewer whose objects A (through add) and B (through add_mesh) grow by
\* one primitive per addition, and
\* the calls that hide, show, pin, unpin, recolour and remove them by id
GroupIdLists == {<<"A">>, <<"A", "ghost", "B">>}
GroupColors == {OneColor(Color("blue", 5)), ColorMap({"A"}, Color("blue", 5))}

GroupNext ==
    \/ Add("v1", Atom("trimesh_obj"), "A", FALSE)
    \/ AddMesh("v1", "trimesh_obj", "B")
    \/ \E ids \in GroupIdLists : HideObjects("v1", ids)
    \/ \E obj \in Optional(GroupIdLists) : UnhideObjects("v1", obj)
    \/ \E ids \in GroupIdLists : PinObjects("v1", ids)
    \/ \E obj \in Optional(GroupIdLists) : UnpinObjects("v1", obj)
    \/ \E c \in GroupColors : SetColors("v1", c)
    \/ RemoveObjects("v1", {"A"})

SpecGroup == Init /\ [][GroupNext]_vars

\* One viewer whose object A grows by one primitive per addition, and the
\* calls that highlight it, take the highlight away, pin and recolour it
Intensities == {ByAmount, Color("red", 5)}
HighlightIdLists == {<<"A">>, <<"ghost", "A">>}
HighlightCalls ==
    {<<Highlight(<<"A">>, c), Unhighlight(Given(<<"A">>))>> : c \in Intensities}
    \cup {<<Highlight(<<"A">>, c), Highlight(<<"A">>, d), Unhighlight(Given(<<"A">>))>> :
             c \in Intensities, d \in Intensities}

HighlightNext ==
    \/ AddMesh("v1", "trimesh_obj", "A")
    \/ PinObjects("v1", <<"A">>)
    \/ UnpinObjects("v1", NotGiven)
    \/ SetColors("v1", ColorMap({"A"}, Color("white", 10)))
    \/ \E ids \in HighlightIdLists, c \in Intensities : HighlightObjects("v1", ids, c)
    \/ \E obj \in Optional(HighlightIdLists) : UnhighlightObjects("v1", obj)
    \/ \E calls \in HighlightCalls : RunCalls("v1", calls)

SpecHighlight == Init /\ [][HighlightNext]_vars

\* One viewer to which objects A and B are added and from which they are
\* removed, while the selection is assigned and objects are clicked
SelectLists == {<<"A">>, <<"A", "B">>, <<"ghost", "A">>}

SelectCalls ==
    {<<Assign(Given(ids)), Assign(Given(ids))>> : ids \in {<<"A">>, <<"A", "B">>}}
    \cup {<<Click(j), Click(j)>> : j \in 1..(Len(InitialChildren) + MaxChildren)}

SelectNext ==
    \/ \E name \in {"A", "B"} : AddMesh("v1", "trimesh_obj", name)
    \/ RemoveObjects("v1", {"A"})
    \/ Clear("v1")
    \/ Pop("v1", 1)
    \/ SetColors("v1", ColorMap({"A"}, Color("red", 5)))
    \/ \E val \in Optional(SelectLists) : SetSelected("v1", val)
    \/ \E j \in 1..Len(scene["v1"]) : ObjectEvent("v1", j, {"select"})
    \/ \E calls \in SelectCalls : RunCalls("v1", calls)

SpecSelect == Init /\ [][SelectNext]_vars

\* One viewer to which meshes are added, without a name or under a name that
\* looks like a label, and from which objects are removed by id
LabelNames == {None, "Mesh.002", "A"}

LabelNext ==
    \/ \E name \in LabelNames : AddMeshToSeries("v1", "trimesh_obj", name)
    \/ \E o \in ObjectIds(scene["v1"]) : RemoveFromSeries("v1", {o})

SpecLabel == Init /\ [][LabelNext]_vars

(***************************************************************************)
(* Batches and degenerate values on one viewer, the palette on a viewer    *)
(* with PaletteLen colors                                                  *)
(***************************************************************************)

\* Values: meshes that are no trimesh (one without faces), a trimesh, a
\* visual, an empty trimesh Scene; lists of them, one with a list inside
BatchAtoms == {"navis_mesh", "tiny_mesh", "faceless_mesh", "trimesh_obj",
               "gfx_visual", "empty_scene"}
Batches ==
    {Batch(<<Atom("navis_mesh"), Atom("tiny_mesh")>>),
     Batch(<<Atom("navis_mesh"), Atom("gfx_visual")>>),
     Batch(<<Atom("navis_mesh"), Atom("tiny_mesh"), Atom("navis_mesh")>>),
     Batch(<<Batch(<<Atom("tiny_mesh")>>), Atom("gfx_visual")>>),
     Batch(<<>>)}
BatchInputs == {Atom(a) : a \in BatchAtoms \ {"trimesh_obj"}} \cup Batches
BatchColors == {NoColor, ColorArray(4)}

BatchNext ==
    \/ \E x \in BatchInputs, center \in BOOLEAN, color \in BatchColors :
           AddWith("v1", x, None, center, color)
    \/ \E o \in ObjectIds(scene["v1"]) : RemoveObjects("v1", {o})

SpecBatch == Init /\ [][BatchNext]_vars

\* The palette: single values, with the color left to the viewer or given
PaletteInputs == {Atom(a) : a \in BatchAtoms}
PaletteColors == {NoColor, Color("red", 5)}

PaletteNext ==
    \/ \E x \in PaletteInputs, color \in PaletteColors :
           AddWith("v3", x, None, TRUE, color)
    \/ \E o \in ObjectIds(scene["v3"]) : RemoveObjects("v3", {o})

SpecPalette == Init /\ [][PaletteNext]_vars

(***************************************************************************)
(* Animations: one viewer, functions come and go between and in frames     *)
(***************************************************************************)

Registrations ==
    {<<f, "remove", 0>> : f \in {"tick", "boom", "spawn", "drop", "quit"}}
    \cup {<<"boom", "ignore", 0>>, <<"boom", "raise", 0>>, <<"tick", "remove", 2>>}

AnimNext ==
    \/ \E r \in Registrations : AddAnimation("v1", r[1], r[2], r[3])
    \/ \E x \in {ByFunc("tick"), ByIndex(0)} : RemoveAnimation("v1", x)
    \/ Animate("v1")

SpecAnim == Init /\ [][AnimNext]_vars

(***************************************************************************)
(* The selection gizmo: configurations, pointer events, classification     *)
(***************************************************************************)

\* Positions of the pointer: three inside the viewport, one left of it
Pointers == {Pt(1, 3), Pt(3, 1), Pt(2, 1), Pt(-1, 2)}
PointerEvents ==
    {Pointer(t, p, m) : t \in {"pointer_down", "pointer_move", "pointer_up"},
                       p \in Pointers, m \in {{}, {"Shift"}}}

\* Primitives by their projected points, in the units of the bounds: points
\* inside, outside, on the border; lines with break points; a volume
Primitive(kind, data) == [kind |-> kind, data |-> data]
Primitives ==
    {Primitive("points", <<Pt(0, 0)>>),
     Primitive("points", <<Pt(0, 0), Pt(3, 3)>>),
     Primitive("mesh", <<Pt(2, 2), Pt(-2, -2), Pt(0, 1)>>),
     Primitive("mesh", <<Pt(3, 3), Pt(4, 0), Pt(-3, 0)>>),
     Primitive("line", <<Pt(0, 0), NaN, Pt(1, 1)>>),
     Primitive("line", <<Pt(0, 0), NaN, Pt(3, 3)>>),
     Primitive("line", <<NaN>>),
     Primitive("volume", <<>>)}

GizmoNext ==
    \/ \E modifier \in {"Shift", None}, leave, force_square, callback \in BOOLEAN :
           CreateGizmo(modifier, leave, force_square, callback)
    \/ \E b \in BOOLEAN : SetDisable(b)
    \/ \E event \in PointerEvents : PointerEvent(event)
    \/ \E ob \in Primitives : FindSelectedObjects(<<ob>>)
    \/ \E ob \in Primitives :
           FindSelectedObjects(<<ob, Primitive("points", <<Pt(0, 0)>>)>>)

SpecGizmo == Init /\ [][GizmoNext]_vars
(***************************************************************************)
(* Adding values, removing them and clearing the viewer                    *)
(***************************************************************************)

\* The values of test_adding_generic_objects: a mesh, an (N, 3) array, a
\* list of (N, 3) arrays and a tuple of two arrays, and a list that mixes both
ClearInputs == {Atom("trimesh_obj"), Atom("points_arr"),
                Batch(<<Atom("points_arr")>>),
                Batch(<<Atom("points_arr"), Atom("points_arr")>>),
                Batch(<<Atom("trimesh_obj"), Atom("points_arr")>>)}

ClearNext ==
    \/ \E x \in ClearInputs, name \in NameInputs : Add("v1", x, name, FALSE)
    \/ Clear("v1")
    \/ ReadObjects("v1")
    \/ ToggleBounds("v1")

SpecClear == Init /\ [][ClearNext]_vars

\* The largest argument of pop
MaxPop == 2

\* The lists of ids given to remove_objects: up to two ids, of objects
\* present or not
RemoveIdSets(v) ==
    {ids \in SUBSET (ObjectIds(scene[v]) \cup {"ghost"}) : Cardinality(ids) <= 2}

\* One viewer with objects A (arrays, alone or in a list of two) and B (a
\* mesh), from which objects and primitives are removed
RemoveNext ==
    \/ Add("v1", Batch(<<Atom("points_arr"), Atom("points_arr")>>), "A", FALSE)
    \/ Add("v1", Atom("points_arr"), "A", FALSE)
    \/ Add("v1", Atom("trimesh_obj"), "B", FALSE)
    \/ ReadObjects("v1")
    \/ ToggleBounds("v1")
    \/ \E ids \in RemoveIdSets("v1") : RemoveTargets("v1", {}, ids)
    \/ \E c \in Range(Tagged(scene["v1"])), ids \in {{}, {"A"}} :
          RemoveTargets("v1", {c.h}, ids)
    \/ \E N \in 0..MaxPop : Pop("v1", N)

SpecRemove == Init /\ [][RemoveNext]_vars

\* Lists of ids that name an id more than once
RepeatLists == {<<"A", "A">>, <<"A", "B", "A">>}

\* One viewer with objects A and B, of which A may be pinned; the selection
\* is assigned (also a list and then the empty list, in turn) and the calls
\* that act on the selected objects are made
SelectedNext ==
    \/ \E name \in {"A", "B"} : AddMesh("v1", "trimesh_obj", name)
    \/ PinObjects("v1", <<"A">>)
    \/ \E val \in Optional(SelectLists \cup RepeatLists) : SetSelected("v1", val)
    \/ \E S \in SelectLists \cup RepeatLists :
          RunCalls("v1", <<Assign(Given(S)), Assign(Given(<<>>))>>)
    \/ HideSelected("v1")
    \/ UnhideObjects("v1", NotGiven)

SpecSelected == Init /\ [][SelectedNext]_vars

\* No primitive of viewer v is highlighted and no object is selected
NoOverlay(children, sel) ==
    /\ sel = <<>>
    /\ \A c \in Range(children) : ~c.highlighted

\* One viewer whose object A is highlighted and selected in turn: a caller
\* makes MaxOverlayCalls calls, each of them highlight_objects("A"),
\* unhighlight_objects("A"), selected = ["A"] or selected = []
MaxOverlayCalls == 4

OverlayCall ==
    {Highlight(<<"A">>, ByAmount), Unhighlight(Given(<<"A">>)),
     Assign(Given(<<"A">>)), Assign(Given(<<>>))}

OverlayCalls == [1..MaxOverlayCalls -> OverlayCall]

\* The caller starts on an object that has just been added: it is neither
\* highlighted nor selected
OverlayRun(v, calls) ==
    /\ call.op = "add_mesh"
    /\ NoOverlay(scene[v], selected[v])
    /\ RunCalls(v, calls)

OverlayNext ==
    \/ AddMesh("v1", "trimesh_obj", "A")
    \/ \E calls \in OverlayCalls : OverlayRun("v1", AsSeq(calls))

SpecOverlay == Init /\ [][OverlayNext]_vars


(***************************************************************************)
(* Messages: one viewer whose render loop runs while messages are shown    *)
(***************************************************************************)

\* show_message with a text or None, without a duration (0) or with one
MessageNext ==
    \/ \E text \in {"test", None}, duration \in {0, 1} : ShowMessage("v1", text, duration)
    \/ Elapse("v1")
    \/ Animate("v1")

SpecMessage == Init /\ [][MessageNext]_vars

\* The render loop keeps going (each frame ends with canvas.request_draw,
\* which schedules the next one) and the clock passes every _fade_out_time
FairMessage == SpecMessage /\ WF_vars(Animate("v1")) /\ WF_vars(Elapse("v1"))

(***************************************************************************)
(* Rendering on demand: one viewer whose render_trigger is switched, whose *)
(* scene is changed and whose animations do or do not ask for a render     *)
(***************************************************************************)

\* tick returns, boom raises and is ignored; with and without req_render,
\* in every frame or in every second one
RenderRegistrations ==
    {<<"tick", "remove", n, r>> : n \in {0, 2}, r \in BOOLEAN}
    \cup {<<"boom", "ignore", 0, TRUE>>}

RenderNext ==
    \/ \E mode \in {"continuous", "reactive", "bogus"} : SetRenderTrigger("v1", mode)
    \/ \E r \in RenderRegistrations : AddAnimationRender("v1", r[1], r[2], r[3], r[4])
    \/ \E f \in {"tick", "boom"} : RemoveAnimation("v1", ByFunc(f))
    \/ AddMesh("v1", "trimesh_obj", "A")
    \/ Clear("v1")
    \/ RendererEvent("v1")
    \/ Animate("v1")

SpecRender == Init /\ [][RenderNext]_vars

(***************************************************************************)
(* Double clicks: one viewer with objects A and B whose on_double_click is *)
(* set and set again, and whose objects are double clicked                 *)
(***************************************************************************)

DoubleClickNext ==
    \/ \E name \in {"A", "B"} : AddMesh("v1", "trimesh_obj", name)
    \/ \E x \in {None, "hide", "remove", "select", "bogus"} : SetOnDoubleClick("v1", x)
    \/ \E j \in 1..(MaxChildren + 5) : DoubleClick("v1", j)
    \/ UnhideObjects("v1", NotGiven)

SpecDoubleClick == Init /\ [][DoubleClickNext]_vars

(***************************************************************************)
(* Claims about the registry                                               *)
(***************************************************************************)

\* Rule k matches value t by one of the four tests of get_converter
RuleMatches(k, t) ==
    \/ is_hashable(t) /\ t = k
    \/ TypeOf(t) = k
    \/ k \in Types /\ IsInstance(t, k)
    \/ callable(k) /\ CallMatcher(k, t) = "True"

MatchingRules(conv, t) == {i \in 1..Len(conv) : RuleMatches(conv[i].k, t)}

IsGet == call.op = "get_converter"
IsRegister == call.op = "register_converter"

\* C3: whenever get_converter returns a handler it is the handler of the
\* first rule, in registry order, that matches the value, and it reports
\* "no converter" (None or NotImplementedError) only when no rule matches.
C3_FirstMatchWins ==
    IsGet =>
        LET m == MatchingRules(CONVERTERS, call.t)
            out == call.out
        IN  /\ (out.kind = "return" /\ out.v # "None") =>
                  \E i \in m : /\ out.v = CONVERTERS[i].v
                                /\ \A j \in m : i <= j
            /\ (out.v = "None" /\ out.exc \in {"none", "NotImplementedError"}) => m = {}

\* C3 witness: after a registration, a value that two rules with different
\* handlers match is resolved to the earlier one.
C3_Witness ==
    /\ IsGet /\ nreg > 0 /\ CONVERTERS # BuiltinItems
    /\ \E i, j \in MatchingRules(CONVERTERS, call.t) :
          /\ i < j /\ CONVERTERS[i].v # CONVERTERS[j].v
          /\ call.out = Returned(CONVERTERS[i].v)

\* C4 (as claimed): after a successful register_converter(m, h, 'first'),
\* get_converter returns h for every value that m matches.
C4_FirstOverrides ==
    (IsRegister /\ call.insert = "first" /\ call.exc = "none") =>
        \A t \in Atoms :
            RuleMatches(call.t, t) =>
                get_converter(CONVERTERS, t, FALSE) = Returned(call.converter)

\* C5 (as claimed): every successful registration adds one entry to the
\* registry, also when the matcher is registered already.
C5_OneEntryPerRegistration ==
    (IsRegister /\ call.exc = "none") =>
        Len(CONVERTERS) = Len(call.before) + 1

\* C6: a registration with a handler that is not callable, or a matcher
\* that is neither hashable nor callable, raises and leaves the registry
\* as it was.
C6_FailedRegistrationAtomic ==
    (IsRegister /\ (~callable(call.converter)
                     \/ (~callable(call.t) /\ ~is_hashable(call.t)))) =>
        /\ call.exc # "none"
        /\ CONVERTERS = call.before

\* C6 witness: a rejected registration made on a registry that earlier
\* registrations have changed.
C6_Witness ==
    /\ IsRegister /\ call.exc = "ValueError"
    /\ CONVERTERS # BuiltinItems
    /\ call.t \in {"a_list", "flag"}

\* C7 (as claimed): no exception raised by a predicate reaches the caller of
\* get_converter, whatever the predicate raises.
C7_NoPredicateExceptionEscapes ==
    IsGet => call.out.exc \in {"none", "NotImplementedError"}

\* The rules of conv without those whose predicate, called on t, returns a
\* truthy value that is not True or raises an exception derived from Exception
DropInert(conv, t) ==
    SelectSeq(conv, LAMBDA r : ~(/\ r.k \in Predicates
                                 /\ CallMatcher(r.k, t) \in {"truthy", "Exception"}))

\* C7 (amended): a predicate that returns a truthy value other than True, or
\* raises an exception derived from Exception, is a non-match: the result is
\* the one the scan gives without these rules; only an exception outside the
\* Exception hierarchy (SystemExit, KeyboardInterrupt) reaches the caller.
C7_InertPredicatesSkipped ==
    IsGet =>
        /\ call.out = get_converter(DropInert(CONVERTERS, call.t), call.t,
                                    call.raise_missing)
        /\ call.out.exc \notin {"none", "NotImplementedError"} =>
              \E i \in 1..Len(CONVERTERS) :
                  CallMatcher(CONVERTERS[i].k, call.t) = "BaseException"

\* C7 witness: a truthy predicate and a raising predicate are both ahead of
\* the rule whose handler is returned.
C7_Witness ==
    /\ IsGet /\ call.out.kind = "return" /\ call.out.v # "None"
    /\ \E i, j, n \in 1..Len(CONVERTERS) :
          /\ i < n /\ j < n
          /\ CONVERTERS[i].k = "is_truthy"
          /\ CONVERTERS[j].k = "is_raising"
          /\ CONVERTERS[n].v = call.out.v
          /\ n \in MatchingRules(CONVERTERS, call.t)

(***************************************************************************)
(* Claims about the object index of a viewer                               *)
(***************************************************************************)

\* C1 (as stated): after any sequence of calls that change the child set,
\* bounding-box calls included, every read of objects() equals the grouping
\* of the scene's current tagged children by _object_id, ids in order of
\* first occurrence and primitives in scene order.
C1_ReadsAreFresh ==
    call.op = "objects" => call.val = GroupByObjectId(scene[call.viewer])

\* C2 (as stated): two reads of objects() of one viewer with no mutation of
\* that viewer's scene between them return the identical structure (the same
\* object, not an equal one), whatever read-only queries ran in between.
C2_RepeatedReadSameStructure ==
    (call.op = "objects" /\ call.prev.valid /\ call.prev.clean)
        => call.ident = call.prev.ident

(***************************************************************************)
(* Claims about values without a converter                                 *)
(***************************************************************************)

\* No rule of the registry matches t and no predicate ends the scan with an
\* exception from outside the Exception hierarchy
Unmatched(t) ==
    /\ MatchingRules(CONVERTERS, t) = {}
    /\ ScanRules(CONVERTERS, t).kind = "exhausted"

\* C8 (as stated): when no rule matches a value, get_converter returns None
\* in probe mode and raises the no-converter error otherwise, and Viewer.add
\* of such a value raises that error and adds no primitive.
C8_UnmatchedAddRaises ==
    (call.op = "add" /\ MatchingRules(CONVERTERS, call.args.x.a) = {}) =>
        /\ get_converter(CONVERTERS, call.args.x.a, FALSE) = Returned(None)
        /\ get_converter(CONVERTERS, call.args.x.a, TRUE).exc = "NotImplementedError"
        /\ call.exc = "NotImplementedError"
        /\ call.added <= 0

\* C8 (amended): when no rule matches a value and no predicate raises past
\* get_converter, get_converter returns None in probe mode and raises
\* NotImplementedError carrying the value and its type otherwise; Viewer.add
\* of such a value that is not a batch (a non-array iterable) raises
\* NotImplementedError and adds no child: the scene is empty if clear was
\* asked for and has the children it had otherwise.
C8_UnmatchedSingleValueRejected ==
    /\ \A t \in Atoms :
          Unmatched(t) =>
             /\ get_converter(CONVERTERS, t, FALSE) = Returned(None)
             /\ get_converter(CONVERTERS, t, TRUE) =
                   [kind |-> "raise", v |-> "None", exc |-> "NotImplementedError",
                    value |-> t, type |-> TypeOf(t)]
    /\ (call.op = "add" /\ ~IsBatch(call.args.x) /\ Unmatched(call.args.x.a)) =>
          /\ call.exc = "NotImplementedError"
          /\ IF call.args.clear THEN Tagged(scene[call.viewer]) = <<>>
             ELSE call.added = 0

\* C8 witness: after a registration, a single value that no rule matches is
\* given to add on a viewer that shows objects, and the call raises.
C8_Witness ==
    /\ call.op = "add" /\ ~IsBatch(call.args.x) /\ Unmatched(call.args.x.a)
    /\ nreg > 0 /\ ~call.args.clear
    /\ Tagged(scene[call.viewer]) # <<>>
    /\ call.exc = "NotImplementedError"

(***************************************************************************)
(* Claims about pinned primitives                                          *)
(***************************************************************************)

\* The calls that change visibility, colour or highlight of the objects
\* they name
PinnableOps == {"hide_objects", "unhide_objects", "set_colors", "highlight_objects"}

\* Call c names the object id oid
Names(c, oid) ==
    CASE c.op \in {"hide_objects", "highlight_objects", "pin_objects"} ->
            oid \in Range(c.args.ids)
      [] c.op \in {"unhide_objects", "unpin_objects"} ->
            ~c.args.obj.given \/ oid \in Range(c.args.obj.ids)
      [] c.op = "set_colors" ->
            c.args.c.kind = "single" \/ (c.args.c.kind = "dict" /\ oid \in c.args.c.ids)
      [] OTHER -> FALSE

\* What call c makes of a primitive p that is not pinned: q
TakesEffect(c, p, q) ==
    CASE c.op = "hide_objects"   -> q = [p EXCEPT !.visible = FALSE]
      [] c.op = "unhide_objects" -> q = [p EXCEPT !.visible = TRUE]
      [] c.op = "set_colors"     -> q = [p EXCEPT !.color = c.args.c.color]
      [] c.op = "highlight_objects" ->
            /\ q.highlighted /\ q.visible = p.visible /\ ~q.pinned
            /\ ~p.highlighted => (q.color = Lighten(p.color) /\ q.original = p.color)
            /\ p.highlighted => q = p

\* C9: hide_objects, unhide_objects, set_colors and highlight_objects on the
\* id of a pinned primitive leave the primitive as it is; unpin_objects on
\* the id clears the pin and nothing else; and on a primitive that is not
\* pinned each of the four calls takes effect.
C9_PinnedUntouchedUntilUnpinned ==
    [][LET c == call'
       IN  c.op \in PinnableOps \cup {"unpin_objects"} =>
             \A j \in 1..Len(scene[c.viewer]) :
                LET p == scene[c.viewer][j]
                    q == scene'[c.viewer][j]
                IN  (p.oid # NoId /\ Names(c, p.oid)) =>
                      /\ (c.op \in PinnableOps /\ p.pinned) => q = p
                      /\ (c.op \in PinnableOps /\ ~p.pinned /\ c.exc = "none") =>
                            TakesEffect(c, p, q)
                      /\ c.op = "unpin_objects" => q = [p EXCEPT !.pinned = FALSE]
      ]_vars

\* C9 witness: hide_objects has been called on the id of a pinned, selected
\* and highlighted object, whose primitives are all still visible.
C9_Witness ==
    /\ call.op = "hide_objects" /\ call.exc = "none"
    /\ \E c \in Range(scene[call.viewer]) :
          c.oid # NoId /\ Names(call, c.oid) /\ c.pinned /\ c.visible /\ c.highlighted
    /\ \A c \in Range(scene[call.viewer]) :
          (c.oid # NoId /\ Names(call, c.oid)) => (c.pinned /\ c.visible)
    /\ selected[call.viewer] # <<>>

\* C10 (as stated): a change of the selection never changes the colour of a
\* pinned primitive.
C10_SelectionKeepsPinnedColor ==
    [][call'.op = "selected" =>
          \A j \in 1..Len(scene[call'.viewer]) :
             scene[call'.viewer][j].pinned =>
                scene'[call'.viewer][j].color = scene[call'.viewer][j].color
      ]_vars

(***************************************************************************)
(* Claims about the primitives of one object                               *)
(***************************************************************************)

\* hide_objects, unhide_objects and set_colors on a primitive that is pinned
\* change nothing; pin_objects pins it whatever it was
GroupEffect(c, p, q) ==
    CASE c.op = "pin_objects" -> q = [p EXCEPT !.pinned = TRUE]
      [] p.pinned             -> q = p
      [] OTHER                -> TakesEffect(c, p, q)

\* C11: after hide_objects, unhide_objects, pin_objects or set_colors on
\* the id of an object of two or more primitives, every primitive of the
\* object that was not pinned shows the effect of the call (so all of them
\* have the same visibility, pin flag and colour where the call sets it),
\* and a pinned one is skipped by the three calls that respect pins.
C11_WholeGroupChanges ==
    [][LET c == call'
       IN  (c.op \in {"hide_objects", "unhide_objects", "pin_objects", "set_colors"}
            /\ c.exc = "none") =>
             \A o \in ObjectIds(scene[c.viewer]) :
                LET g == Members(scene[c.viewer], o)
                IN  (Names(c, o) /\ Cardinality(g) >= 2) =>
                      /\ \A j \in g : GroupEffect(c, scene[c.viewer][j], scene'[c.viewer][j])
                      /\ \A j, k \in g :
                            (~scene[c.viewer][j].pinned /\ ~scene[c.viewer][k].pinned) =>
                               /\ c.op \in {"hide_objects", "unhide_objects"} =>
                                     scene'[c.viewer][j].visible = scene'[c.viewer][k].visible
                               /\ c.op = "pin_objects" =>
                                     scene'[c.viewer][j].pinned = scene'[c.viewer][k].pinned
                               /\ c.op = "set_colors" =>
                                     scene'[c.viewer][j].color = scene'[c.viewer][k].color
      ]_vars

\* C11 witness: set_colors has named an object of two primitives, none of
\* them pinned, one of which was hidden before the other was added; both
\* have the colour of the call.
C11_Witness ==
    /\ call.op = "set_colors" /\ call.exc = "none" /\ call.args.c.kind = "dict"
    /\ \E o \in call.args.c.ids :
          LET g == Members(scene[call.viewer], o)
          IN  /\ Cardinality(g) >= 2
              /\ \A j \in g : /\ ~scene[call.viewer][j].pinned
                              /\ scene[call.viewer][j].color = call.args.c.color
              /\ \E j, k \in g : /\ scene[call.viewer][j].visible
                                 /\ ~scene[call.viewer][k].visible

\* C12 (as stated): in every reachable state the primitives that share an
\* _object_id have the same visible value and the same pinned value.
C12_GroupsUniform ==
    \A v \in Viewers : \A o \in ObjectIds(scene[v]) :
        \A j, k \in Members(scene[v], o) :
            /\ scene[v][j].visible = scene[v][k].visible
            /\ scene[v][j].pinned = scene[v][k].pinned

\* The list of ids a call of hide_objects, unhide_objects, pin_objects or
\* unpin_objects works on
IdsOf(c, children) ==
    IF c.op \in {"hide_objects", "pin_objects"} THEN c.args.ids
    ELSE IF c.args.obj.given THEN c.args.obj.ids
    ELSE Ids(GroupByObjectId(children))

\* C17: hide_objects, unhide_objects, pin_objects and unpin_objects given a
\* list with unknown ids raise nothing, log one warning for each unknown id
\* and take effect on the primitives of every known id of the list, those
\* behind an unknown id included; the other primitives stay as they are.
C17_UnknownIdsSkipped ==
    [][LET c == call'
       IN  c.op \in {"hide_objects", "unhide_objects", "pin_objects", "unpin_objects"} =>
             LET ids == IdsOf(c, scene[c.viewer])
             IN  /\ c.exc = "none"
                 /\ c.warned = SelectSeq(ids, LAMBDA o : o \notin ObjectIds(scene[c.viewer]))
                 /\ Len(scene'[c.viewer]) = Len(scene[c.viewer])
                 /\ \A j \in 1..Len(scene[c.viewer]) :
                       LET p == scene[c.viewer][j]
                           q == scene'[c.viewer][j]
                       IN  IF p.oid \in Range(ids)
                           THEN IF c.op = "unpin_objects"
                                THEN q = [p EXCEPT !.pinned = FALSE]
                                ELSE GroupEffect(c, p, q)
                           ELSE q = p
      ]_vars

\* C17 witness: hide_objects(["A", "ghost", "B"]) has been called with A
\* and B on the canvas; it raised nothing, logged one warning, for ghost,
\* and A and B are hidden.
C17_Witness ==
    /\ call.op = "hide_objects" /\ call.exc = "none"
    /\ call.args.ids = <<"A", "ghost", "B">>
    /\ call.warned = <<"ghost">>
    /\ ObjectIds(scene[call.viewer]) = {"A", "B"}
    /\ \A c \in Range(Tagged(scene[call.viewer])) : ~c.visible /\ ~c.pinned
(***************************************************************************)
(* Claims about highlights                                                 *)
(***************************************************************************)

\* The calls a caller made in turn were highlight_objects(ids) n times and
\* then unhighlight_objects(ids) once, and none of them raised
HighlightsThenUnhighlight(c, n) ==
    /\ c.op = "calls" /\ c.exc = "none"
    /\ Len(c.args.calls) = n + 1
    /\ \A i \in 1..n : /\ c.args.calls[i].m = "highlight_objects"
                       /\ c.args.calls[i].obj = c.args.calls[1].obj
    /\ c.args.calls[n + 1] = Unhighlight(c.args.calls[1].obj)

\* C13: highlight_objects(id) followed by unhighlight_objects(id) leaves a
\* primitive of the object that is neither pinned nor highlighted already
\* with the colour it had before, not highlighted and with no colour
\* buffered, for a numeric intensity and for an explicit colour.
C13_HighlightRoundTrip ==
    [][HighlightsThenUnhighlight(call', 1) =>
          \A j \in 1..Len(scene[call'.viewer]) :
             LET p == scene[call'.viewer][j]
                 q == scene'[call'.viewer][j]
             IN  (p.oid \in Range(call'.args.calls[1].obj.ids)
                  /\ ~p.pinned /\ ~p.highlighted) =>
                    /\ q.color = p.color
                    /\ ~q.highlighted
                    /\ q.original = NoColor
      ]_vars

\* C13 witness: a caller has highlighted by a number and then unhighlighted
\* an object with a primitive of full lightness (which the highlight makes
\* darker), that is neither pinned nor highlighted now.
C13_Witness ==
    /\ HighlightsThenUnhighlight(call, 1)
    /\ call.args.calls[1].color = ByAmount
    /\ \E c \in Range(scene[call.viewer]) :
          /\ c.oid \in Range(call.args.calls[1].obj.ids)
          /\ ~c.pinned /\ ~c.highlighted
          /\ c.color = Color("white", 10) /\ Lighten(c.color) # c.color

\* C14: a primitive has a buffered colour exactly while it is highlighted;
\* highlight_objects leaves a highlighted primitive as it is;
\* unhighlight_objects leaves a primitive that is not highlighted as it is;
\* and highlight, highlight with any intensity, then one unhighlight give a
\* primitive that was neither pinned nor highlighted its colour back.
C14_OneBufferedColor ==
    [][\A j \in 1..Len(scene'[call'.viewer]) :
          LET q == scene'[call'.viewer][j]
          IN  /\ (q.original # NoColor) <=> q.highlighted
              /\ j <= Len(scene[call'.viewer]) =>
                    LET p == scene[call'.viewer][j]
                    IN  /\ (call'.op = "highlight_objects" /\ p.highlighted) => q = p
                        /\ (call'.op = "unhighlight_objects" /\ ~p.highlighted) => q = p
                        /\ (HighlightsThenUnhighlight(call', 2)
                            /\ p.oid \in Range(call'.args.calls[1].obj.ids)
                            /\ ~p.pinned /\ ~p.highlighted) => q = p
      ]_vars

\* C14 witness: a caller has highlighted an object twice, with a number and
\* then with a colour, and unhighlighted it once; a primitive of it is not
\* highlighted and has no buffered colour.
C14_Witness ==
    /\ HighlightsThenUnhighlight(call, 2)
    /\ call.args.calls[1].color = ByAmount
    /\ call.args.calls[2].color # ByAmount
    /\ \E c \in Range(scene[call.viewer]) :
          /\ c.oid \in Range(call.args.calls[1].obj.ids)
          /\ ~c.pinned /\ ~c.highlighted /\ c.original = NoColor
(***************************************************************************)
(* Claims about the selection                                              *)
(***************************************************************************)

\* A caller made the same call twice in turn, and neither raised
Twice(c, m) ==
    /\ c.op = "calls" /\ c.exc = "none"
    /\ Len(c.args.calls) = 2
    /\ c.args.calls[1] = c.args.calls[2]
    /\ c.args.calls[1].m = m

\* C15 (as stated): the selection assigned the same list of ids twice in a
\* row is empty afterwards, and the primitives of those ids have the colour
\* they had before.
C15_AssignTwiceTogglesOut ==
    [][Twice(call', "selected") =>
          /\ selected'[call'.viewer] = <<>>
          /\ \A j \in 1..Len(scene[call'.viewer]) :
                scene[call'.viewer][j].oid \in Range(call'.args.calls[1].obj.ids) =>
                   scene'[call'.viewer][j].color = scene[call'.viewer][j].color
      ]_vars

\* C15 (amended): two pointer events in a row with the select action on an
\* object that is not selected leave the selection as it was (empty when it
\* was empty) and every primitive with the colour it had; assigning the
\* same list twice leaves exactly that list selected.
C15_ClickTwiceTogglesOut ==
    [][/\ Twice(call', "select event") =>
            LET id == scene[call'.viewer][call'.args.calls[1].at].oid
            IN  id \notin Range(selected[call'.viewer]) =>
                  /\ selected'[call'.viewer] = selected[call'.viewer]
                  /\ \A j \in 1..Len(scene[call'.viewer]) :
                        scene'[call'.viewer][j].color = scene[call'.viewer][j].color
       /\ Twice(call', "selected") =>
            selected'[call'.viewer] = call'.args.calls[1].obj.ids
      ]_vars

\* C15 witness: an object recoloured before has been clicked twice; the
\* selection is empty and the primitive has the colour it was given, which
\* the first click had stored.
C15_Witness ==
    /\ Twice(call, "select event")
    /\ selected[call.viewer] = <<>>
    /\ LET c == scene[call.viewer][call.args.calls[1].at]
       IN  c.color = Color("red", 5) /\ c.stored = c.color

\* C16 (as stated): every id in the selection of a viewer is the id of an
\* object the viewer holds.
C16_SelectionNamesObjects ==
    \A v \in Viewers : Range(selected[v]) \subseteq ObjectIds(scene[v])

\* C18 (as stated): highlight_objects, unhighlight_objects and an assignment
\* of the selection never raise, whatever ids they are given.
C18_UnknownIdsNeverRaise ==
    call.op \in {"highlight_objects", "unhighlight_objects", "selected"} =>
        call.exc = "none"
(***************************************************************************)
(* Claims about generated labels                                           *)
(***************************************************************************)

\* The names the claim gives to unnamed meshes added one after another
MeshSeries == <<"Mesh", "Mesh.002", "Mesh.003", "Mesh.004", "Mesh.005", "Mesh.006">>

\* add_mesh without a name has added a primitive
UnnamedMeshAdded(c) ==
    c.op = "add_mesh" /\ c.args.name = None /\ c.exc = "none" /\ c.added = 1

\* C19: when the objects of a viewer are the first n names of the series
\* Mesh, Mesh.002, Mesh.003, ... in this order (none for n = 0), add_mesh
\* without a name adds one primitive under the next name of the series.
C19_UnnamedMeshesNumbered ==
    [][(UnnamedMeshAdded(call')
        /\ Len(scene[call'.viewer]) - Len(InitialChildren) < Len(MeshSeries)
        /\ Ids(GroupByObjectId(scene[call'.viewer]))
             = SubSeq(MeshSeries, 1, Len(scene[call'.viewer]) - Len(InitialChildren))) =>
          /\ Ids(GroupByObjectId(scene'[call'.viewer]))
               = SubSeq(MeshSeries, 1, Len(scene'[call'.viewer]) - Len(InitialChildren))
          /\ scene'[call'.viewer][Len(scene'[call'.viewer])].oid
               = MeshSeries[Len(scene'[call'.viewer]) - Len(InitialChildren)]
      ]_vars

\* C19 witness: three meshes have been added without a name, the last one
\* by the call just made; their ids are Mesh, Mesh.002 and Mesh.003.
C19_Witness ==
    /\ UnnamedMeshAdded(call)
    /\ Ids(GroupByObjectId(scene[call.viewer])) = <<"Mesh", "Mesh.002", "Mesh.003">>
    /\ Len(Tagged(scene[call.viewer])) = 3

\* C20 (as stated): the label add_mesh gives to an object added without a
\* name is the id of no object the viewer held before the call.
C20_LabelsAreFresh ==
    [][UnnamedMeshAdded(call') =>
          scene'[call'.viewer][Len(scene'[call'.viewer])].oid
              \notin ObjectIds(scene[call'.viewer])
      ]_vars

(***************************************************************************)
(* Claims about degenerate values, batches and the palette                 *)
(***************************************************************************)

\* What the handler of a value returns to an add without a color keyword
HandlerReturns(a) ==
    LET h == get_converter(CONVERTERS, a, FALSE).v
    IN  CallHandler(h, a, IF TakesColor(h) THEN NewColor ELSE NoColor)

\* The last call was add(x) of one value, without a color keyword
AddedOne == call.op = "add" /\ ~IsBatch(call.args.x) /\ call.args.color = NoColor

\* C21: when the handler of the value returns None or an empty sequence,
\* add completes without raising and adds no primitive to the scene.
C21_DegenerateAddsNothing ==
    (/\ AddedOne
     /\ HandlerReturns(call.args.x.a).exc = "none"
     /\ HandlerReturns(call.args.x.a).visuals \in {<<>>, <<NoneVisual>>})
    => call.exc = "none" /\ call.added = 0

\* The single values of a (nested) list, in order
RECURSIVE Flatten(_)
RECURSIVE FlattenAll(_)
FlattenAll(items) ==
    IF items = <<>> THEN <<>> ELSE Flatten(items[1]) \o FlattenAll(Tail(items))
Flatten(x) == IF IsBatch(x) THEN FlattenAll(x.items) ELSE <<x.a>>

\* The values whose primitives a call added to the scene, in order, and the
\* positions in its trace at which it centered the camera
AddedValues(trace) ==
    LET adds == SelectSeq(trace, LAMBDA ev : ev.e = "scene.add")
    IN  AsSeq([j \in 1..Len(adds) |-> adds[j].x])
CenteredAt(trace) == {j \in 1..Len(trace) : trace[j].e = "center_camera"}

\* The last call was add of a list and did not raise
AddedBatch == call.op = "add" /\ IsBatch(call.args.x) /\ call.exc = "none"

\* C22: add of a (nested) list adds the elements in input order; with
\* center=True it centers the camera exactly once, after the last element
\* has been added; with center=False it never centers it.
C22_BatchCentersOnceAtEnd ==
    AddedBatch =>
        /\ AddedValues(call.trace) = Flatten(call.args.x)
        /\ CenteredAt(call.trace) =
               IF call.args.center THEN {Len(call.trace)} ELSE {}

\* C22: a list of two values or more has been added with center=True
C22_Witness ==
    /\ AddedBatch
    /\ call.args.center
    /\ Len(Flatten(call.args.x)) >= 2
    /\ call.added = Len(Flatten(call.args.x))

\* The handler of value a returns when add calls it with this color keyword
ConvertsWith(a, color) ==
    LET h == get_converter(CONVERTERS, a, FALSE).v
        kw == IF color = NoColor /\ TakesColor(h) THEN NewColor ELSE color
    IN  CallHandler(h, a, kw).exc = "none"

\* C23: when the conversion of an element of a list fails, the elements
\* before and after it are still converted and added: the call adds exactly
\* the elements whose own conversion succeeds.
C23_BatchFailureIsLocal ==
    (call.op = "add" /\ IsBatch(call.args.x)) =>
        AddedValues(call.trace) =
            SelectSeq(Flatten(call.args.x),
                      LAMBDA a : ConvertsWith(a, call.args.color))

\* The colors a call took from the palette, in order
Picked(trace) == SelectSeq(trace, LAMBDA ev : ev.e = "next_color")

\* add(x) of one value with these arguments injects a color: no color
\* keyword, and the handler of the value has the parameter
Injects(args) ==
    LET conv == get_converter(CONVERTERS, args.x.a, FALSE)
    IN  /\ ~IsBatch(args.x)
        /\ args.color = NoColor
        /\ conv.kind # "raise"
        /\ conv.v # None
        /\ TakesColor(conv.v)

\* C24: the injected color is the one at the index given by the number of
\* objects present at the time, modulo the length of the palette; a handler
\* without a color parameter and a call with a color take none.
C24_ColorIndexIsObjectCount ==
    call.op = "add" =>
        IF Injects(call.args)
        THEN /\ Len(Picked(call.trace)) = 1
             /\ Picked(call.trace)[1].i = Picked(call.trace)[1].n % Len(Palette(call.viewer))
        ELSE Picked(call.trace) = <<>>

\* C24 as the code has it: the index is a count the viewer keeps of the
\* colors it has handed out, modulo the length of the palette. An add that
\* injects a color takes the one at the count and moves the count on by
\* one, whatever the scene holds; mesh2gfx gives that color to the
\* primitive. Any other add takes no color and leaves the count alone.
C24_ColorIndexIsRunningCount ==
    [][call'.op = "add" =>
        LET v == call'.viewer
            i == palette_index[v]
            picked == Picked(call'.trace)
        IN  IF Injects(call'.args)
            THEN /\ Len(picked) = 1
                 /\ picked[1].i = i
                 /\ palette_index'[v] = (i + 1) % Len(Palette(v))
                 /\ (call'.exc = "none" /\ is_mesh_like(call'.args.x.a)
                     /\ call'.added = 1 /\ ~IsInstance(call'.args.x.a, "tm.Trimesh"))
                    => scene'[v][Len(scene'[v])].color = Palette(v)[i + 1]
            ELSE /\ picked = <<>>
                 /\ palette_index'[v] = palette_index[v]]_vars

\* C24: an add has injected a color whose index is not the number of
\* objects present
C24_Witness ==
    /\ call.op = "add"
    /\ Injects(call.args)
    /\ call.exc = "none"
    /\ Len(Picked(call.trace)) = 1
    /\ Picked(call.trace)[1].i # Picked(call.trace)[1].n % Len(Palette(call.viewer))

(***************************************************************************)
(* Claims about the cache and the stale flag after calls that change state *)
(***************************************************************************)

Mutators == {"hide_objects", "unhide_objects", "pin_objects", "unpin_objects",
             "set_colors", "highlight_objects", "unhighlight_objects", "selected"}

\* C25: when hide_objects, unhide_objects, pin_objects, unpin_objects,
\* set_colors, highlight_objects, unhighlight_objects or an assignment of the
\* selection has returned, the cache holds no mapping for the viewer and the
\* viewer's stale flag is set.
C25_MutatorsInvalidate ==
    (call.op \in Mutators /\ call.exc = "none") =>
        /\ objCache.key # call.viewer
        /\ render_stale[call.viewer]

(***************************************************************************)
(* Claims about animation callbacks                                        *)
(***************************************************************************)

\* An item whose function raises and is registered with on_error="remove"
Failing(e) == e.f = "boom" /\ e.on_error = "remove"

\* C26: when a function registered with on_error="remove" raises in a
\* frame, the frame ends without an exception, the function is no longer
\* registered afterwards and all other functions stay registered. Taken for
\* frames that start with no removal pending and run nothing but functions
\* that do nothing or raise, none with on_error="raise".
C26_RaisingCallbackRemoved ==
    (/\ call.op = "_animate"
     /\ call.before.flagged = <<>>
     /\ \E j \in 1..Len(call.before.fns) : Failing(call.before.fns[j])
     /\ \A j \in 1..Len(call.before.fns) :
            /\ call.before.fns[j].f \in {"tick", "boom"}
            /\ call.before.fns[j].on_error # "raise")
    => /\ call.exc = "none"
       /\ animations[call.viewer].fns =
              SelectSeq(call.before.fns, LAMBDA e : ~Failing(e))

\* The functions of these items, in order
Funcs(items) == AsSeq([j \in 1..Len(items) |-> items[j].f])

\* C27: functions may add and remove functions (themselves too) while a
\* frame runs: the frame calls every function that was registered when it
\* began and is due in it, in order, also one whose removal was asked for
\* before its turn; the removals take effect when the loop is over; a
\* function added in the frame is not called in it and is registered after
\* it. Taken for frames that end without an exception.
C27_FrameWalksSnapshot ==
    (call.op = "_animate" /\ call.exc = "none") =>
        LET b == call.before
            frame == (b.frame + 1) % FrameCycle
            due == SelectSeq(b.fns, LAMBDA e :
                       e.run_every = 0 \/ frame % e.run_every = 0)
            ran == Range(Funcs(due))
            removed == {x.f : x \in Range(b.flagged)}
                       \cup (IF "drop" \in ran THEN {"tick"} ELSE {})
                       \cup (IF "quit" \in ran THEN {"quit"} ELSE {})
            added == IF "spawn" \in ran /\ ~HasKey(b.fns, "late")
                     THEN <<Animation("late", "remove", 0, TRUE)>> ELSE <<>>
        IN  /\ call.ran = Funcs(due)
            /\ animations[call.viewer].fns =
                   SelectSeq(b.fns \o added, LAMBDA e : e.f \notin removed)
            /\ animations[call.viewer].flagged = <<>>

\* C27: a frame has run a function that removes itself and one that adds
\* another, and ended without an exception
C27_Witness ==
    /\ call.op = "_animate"
    /\ call.exc = "none"
    /\ {"quit", "spawn"} \subseteq Range(call.ran)
    /\ Funcs(animations[call.viewer].fns) = <<"spawn", "late">>

(***************************************************************************)
(* Claims about the selection gizmo                                        *)
(***************************************************************************)

\* The step is a pointer event handed to a gizmo that is not disabled
Handled(next) == next.op = "_process_event" /\ ~gizmo.disable

\* The modifier of the gizmo is held in the event (modifier None: always)
HasModifier(event) == gizmo.modifier = None \/ gizmo.modifier \in event.modifiers

\* C28: for a gizmo that is not disabled, a pointer-down with the modifier
\* inside the viewport takes it from idle to dragging with a rectangle of
\* size zero at the pointer; a pointer-up while dragging takes it back to
\* idle, hides the rectangle unless it is to stay, and calls the callback
\* once (if there is one); a pointer-move or pointer-up while idle changes
\* nothing and calls nothing.
C28_GizmoStateMachine ==
    [][Handled(call') =>
        LET ev == call'.args
        IN  /\ (/\ ~gizmo.active
                /\ ev.type = "pointer_down" /\ HasModifier(ev) /\ is_inside(ev.pos))
               => /\ gizmo'.active /\ gizmo'.visible /\ gizmo'.sel.set
                  /\ gizmo'.sel.start = Pt(2 * ev.pos.x - ViewSize, ViewSize - 2 * ev.pos.y)
                  /\ gizmo'.sel.end = gizmo'.sel.start
                  /\ call'.invoked = 0 /\ call'.exc = "none"
            /\ (gizmo.active /\ ev.type = "pointer_up")
               => /\ ~gizmo'.active
                  /\ gizmo'.visible = (gizmo.leave /\ gizmo.visible)
                  /\ gizmo'.sel = gizmo.sel
                  /\ call'.invoked = (IF gizmo.callback THEN 1 ELSE 0)
                  /\ call'.exc = "none"
            /\ (~gizmo.active /\ ev.type \in {"pointer_move", "pointer_up"})
               => /\ gizmo' = gizmo
                  /\ call'.invoked = 0 /\ call'.exc = "none"]_vars

\* C28: a drag has ended with a call of the callback, the rectangle hidden
C28_Witness ==
    /\ call.op = "_process_event"
    /\ call.args.type = "pointer_up"
    /\ call.before.active /\ call.before.visible /\ ~call.before.disable
    /\ call.before.sel.start # call.before.sel.end
    /\ call.invoked = 1
    /\ ~gizmo.active /\ ~gizmo.visible

\* C29: with force_square, a pointer-move inside the viewport while
\* dragging keeps the gizmo dragging and puts the far corner at the start
\* plus min(|dx|, |dy|) in the direction of dx and of dy, so that width and
\* height are equal.
C29_ForceSquare ==
    [][(/\ Handled(call')
        /\ gizmo.active /\ gizmo.force_square
        /\ call'.args.type = "pointer_move" /\ is_inside(call'.args.pos))
       => LET p == screen_to_world(call'.args.pos)
              dx == p.x - gizmo.sel.start.x
              dy == p.y - gizmo.sel.start.y
              dmin == Min(Abs(dx), Abs(dy))
          IN  /\ call'.exc = "none"
              /\ gizmo'.active
              /\ gizmo'.sel.start = gizmo.sel.start
              /\ gizmo'.sel.end = Pt(gizmo.sel.start.x + Sign(dx) * dmin,
                                     gizmo.sel.start.y + Sign(dy) * dmin)]_vars

\* A projected point lies in the rectangle between the corners of the
\* drag, borders included; a NaN point lies nowhere
InsideDrag(p) ==
    LET s == gizmo.sel.start
        e == gizmo.sel.end
    IN  /\ ~p.nan
        /\ (s.x <= p.x /\ p.x <= e.x) \/ (e.x <= p.x /\ p.x <= s.x)
        /\ (s.y <= p.y /\ p.y <= e.y) \/ (e.y <= p.y /\ p.y <= s.y)

\* C30: whatever the direction of the drag, a primitive with positions is
\* clipped iff one of its projected points lies in the rectangle (borders
\* included) and contained iff all of its points that are not NaN do; the
\* NaN break points of a line are never inside and do not count for
\* "all". So one point at (0,0) in the rectangle (-1/2,-1/2)..(1/2,1/2) is
\* clipped and contained.
C30_ClippedAnyContainedAll ==
    (/\ call.op = "find_selected_objects"
     /\ gizmo.sel.set
     /\ call.args.obs[1].kind \in {"mesh", "points", "line"})
    => LET data == call.args.obs[1].data
           r == call.result.objects[1]
       IN  /\ r.clipped = ToString(\E j \in 1..Len(data) : InsideDrag(data[j]))
           /\ r.contained =
                  ToString(\A j \in 1..Len(data) : ~data[j].nan => InsideDrag(data[j]))

\* C30: after a drag from the upper right to the lower left that spans
\* (-1/2,-1/2)..(1/2,1/2), a point at (0,0) has come out clipped and
\* contained
C30_Witness ==
    /\ call.op = "find_selected_objects"
    /\ 2 * gizmo.sel.start.x = ViewSize /\ 2 * gizmo.sel.start.y = ViewSize
    /\ 2 * gizmo.sel.end.x = -ViewSize /\ 2 * gizmo.sel.end.y = -ViewSize
    /\ call.args.obs = <<[kind |-> "points", data |-> <<Pt(0, 0)>>]>>
    /\ call.result.objects = <<[clipped |-> "TRUE", contained |-> "TRUE"]>>
\* A sequence in the opposite order
Reversed(seq) == AsSeq([j \in 1..Len(seq) |-> seq[Len(seq) + 1 - j]])

\* C40: the 'contained' and 'clipped' values find_selected_objects gives an
\* object are those it gives an object with the same primitives in the
\* opposite order.
C40_GroupResultIgnoresOrder ==
    call.op = "find_selected_objects" /\ call.exc = "none" /\ gizmo.sel.set =>
        LET there == find_selected_objects(gizmo, call.args.obs)
            back == find_selected_objects(gizmo, Reversed(call.args.obs))
        IN  /\ there.contained = back.contained
            /\ there.clipped = back.clipped

(***************************************************************************)
(* Claims about clear, remove_objects and pop                              *)
(***************************************************************************)

\* The children of viewer v that carry no _object_id
Untagged(children) == SelectSeq(children, LAMBDA c : c.oid = NoId)

\* C31: add(x) for a mesh, an (N, 3) array or a list or tuple of them
\* returns without an exception, and the clear() that follows returns
\* without an exception and leaves no object: objects() is empty, len(viewer)
\* is 0, no child carries an _object_id, and the lights and the background
\* are still the children of the scene.
C31_AddThenClearEmpties ==
    [][LET v == call'.viewer IN
       /\ call'.op = "add" /\ call'.args.x \in ClearInputs => call'.exc = "none"
       /\ call.op = "add" /\ call'.op = "clear" =>
             /\ call'.exc = "none"
             /\ Tagged(scene'[v]) = <<>>
             /\ scene'[v] = InitialChildren
             /\ Untagged(scene'[v]) = Untagged(scene[v])
             /\ objCache'.key # v
             /\ GroupByObjectId(scene'[v]) = <<>>
             /\ Cardinality(ObjectIds(scene'[v])) = 0]_vars

\* A clear after the add of a list with the bounding box shown: three
\* children leave the scene
C31_Witness ==
    /\ call.op = "clear" /\ call.exc = "none"
    /\ call.added = -3
    /\ show_bounds["v1"]

\* The children without their identities
Plain(children) == AsSeq([j \in 1..Len(children) |-> [children[j] EXCEPT !.h = 0]])

Boxes(children) == SelectSeq(children, LAMBDA c : c.otype = "boundingbox")
NotBoxes(children) == SelectSeq(children, LAMBDA c : c.otype # "boundingbox")

\* The children that remove_objects(prims, ids) is to leave in the scene
Spared(children, prims, ids) ==
    SelectSeq(children, LAMBDA c : ~(c.h \in prims \/ (c.oid # NoId /\ c.oid \in ids)))

RemoveReturned == call'.op = "remove_objects" /\ call'.exc = "none"

\* C35 as stated: remove_objects(targets) removes every primitive that is in
\* targets or whose _object_id is, removes no other child and keeps the
\* order of the others; the ids are absent from the next read of objects()
\* (which scans the scene anew).
C35_RemovesTargetsOnly ==
    [][RemoveReturned =>
         LET v == call'.viewer IN
         /\ Plain(scene'[v]) = Plain(Spared(scene[v], call'.args.prims, call'.args.ids))
         /\ objCache'.key # v
         /\ IdSet(GroupByObjectId(NotBoxes(scene'[v]))) \cap call'.args.ids = {}]_vars

\* C35, amended: the same for every child but the bounding box; while
\* show_bounds is on the box is taken out and a new one is put at the end of
\* the children, or none when no primitive is left.
C35_RemovesTargetsAndRedrawsBox ==
    [][RemoveReturned =>
         LET v == call'.viewer
             spared == Spared(scene[v], call'.args.prims, call'.args.ids)
         IN
         /\ Plain(NotBoxes(scene'[v])) = Plain(NotBoxes(spared))
         /\ IF show_bounds[v]
            THEN /\ Len(Boxes(scene'[v])) = IF Tagged(NotBoxes(spared)) = <<>> THEN 0 ELSE 1
                 /\ Boxes(scene'[v]) # <<>> => scene'[v][Len(scene'[v])].otype = "boundingbox"
            ELSE Plain(Boxes(scene'[v])) = Plain(Boxes(spared))
         /\ objCache'.key # v
         /\ IdSet(GroupByObjectId(NotBoxes(scene'[v]))) \cap call'.args.ids = {}]_vars

\* remove_objects has taken the first of two primitives by identity and
\* left the second, with the bounding box shown
C35_Witness ==
    /\ call.op = "remove_objects" /\ call.exc = "none"
    /\ call.args.prims = {1} /\ call.args.ids = {}
    /\ Len(NotBoxes(Tagged(scene["v1"]))) = 1
    /\ Len(Boxes(scene["v1"])) = 1

\* The first n elements of a sequence
FirstN(seq, n) == SubSeq(seq, 1, n)

\* C36: pop(N) removes the min(N, number of objects) objects added last,
\* with all their primitives, and leaves the earlier ones as they were (the
\* objects are those the viewer was given: the bounding box is left aside).
C36_PopRemovesLastN ==
    [][call'.op = "pop" /\ call'.exc = "none" =>
         LET v == call'.viewer
             N == call'.args.N
             ids == Ids(GroupByObjectId(NotBoxes(scene[v])))
             n == IF N < Len(ids) THEN N ELSE Len(ids)
             kept == Range(FirstN(ids, Len(ids) - n))
         IN  Plain(NotBoxes(scene'[v]))
               = Plain(SelectSeq(NotBoxes(scene[v]),
                                 LAMBDA c : c.oid = NoId \/ c.oid \in kept))]_vars

(***************************************************************************)
(* Claims about the selection, the highlight and the double click          *)
(***************************************************************************)

\* C37: with objects selected, hide_selected() returns without an exception and leaves every
\* primitive of a selected object that is not pinned invisible.
C37_HideSelectedHides ==
    call.op = "hide_selected" /\ selected[call.viewer] # <<>> =>
        /\ call.exc = "none"
        /\ \A c \in Range(scene[call.viewer]) :
              c.oid \in Range(selected[call.viewer]) /\ ~c.pinned => ~c.visible

\* C38: when highlight_objects, unhighlight_objects and assignments of the
\* selection have been applied to an unpinned object in any order and the
\* object is neither highlighted nor selected again, each of its primitives
\* has the colour it had before the first of the calls.
C38_OverlaysLeaveNoColor ==
    [][LET v == call'.viewer IN
       /\ call'.op = "calls" /\ call'.exc = "none"
       /\ NoOverlay(scene[v], selected[v])
       /\ NoOverlay(scene'[v], selected'[v])
       => \A j \in 1..Len(scene[v]) : scene'[v][j].color = scene[v][j].color]_vars

\* C39: for a list S of ids of objects that exist and are not pinned, also
\* one that names an id more than once, selected = S followed by
\* selected = [] leaves every primitive with the colour it had before, and
\* the selection never holds an id twice.
C39_SelectionIsASet ==
    [][LET v == call'.viewer IN
       /\ call'.op = "selected" /\ call'.exc = "none" =>
             \A i, j \in 1..Len(selected'[v]) :
                selected'[v][i] = selected'[v][j] => i = j
       /\ (/\ call'.op = "calls" /\ call'.exc = "none"
           /\ selected[v] = <<>>
           /\ \A c \in Range(scene[v]) : ~c.pinned)
          => \A j \in 1..Len(scene[v]) : scene'[v][j].color = scene[v][j].color]_vars

(***************************************************************************)
(* Claims about the render loop                                            *)
(***************************************************************************)

\* The closures _fade_message among the animations of viewer v
Fading(v) == {j \in 1..Len(animations[v].fns) : animations[v].fns[j].f \in FadeCallbacks}

\* C32: while frames keep being processed and the duration passes, a
\* message shown with show_message(text, duration=d) is eventually out of
\* the overlay scene with no _fade_message left among the animations, and
\* no frame raises an exception.
C32_MessageFadesOut ==
    /\ (call.op = "show_message" /\ call.exc = "none" /\ call.args.x # None
        /\ call.args.duration # 0)
          ~> (~message["v1"].shown /\ Fading("v1") = {})
    /\ [](call.op = "_animate" => call.exc = "none")

\* A frame in which a message at its last step of opacity was taken out of
\* the overlay scene and its _fade_message out of the animations
C32_Witness ==
    /\ call.op = "_animate" /\ call.exc = "none"
    /\ FadeName(1) \in Range(call.ran)
    /\ \E j \in 1..Len(call.before.fns) : call.before.fns[j].f = FadeName(1)
    /\ Fading("v1") = {}
    /\ message["v1"].attr /\ ~message["v1"].shown /\ message["v1"].opacity = 0


\* The functions of viewer v that ask for a render and returned in the
\* frame just processed
AskedRender(v) ==
    {j \in 1..Len(animations[v].fns) :
        /\ animations[v].fns[j].req_render
        /\ animations[v].fns[j].f \in Range(call'.ran)
        /\ animations[v].fns[j].f # "boom"}

\* C33: with render_trigger "reactive" a frame that returns renders exactly
\* if _render_stale was set before it or one of its functions with
\* req_render returned, and leaves the flag unset; a call through
\* update_helper and a pointer or wheel event set the flag, and nothing but
\* a frame that renders unsets it, so the next frame renders.
C33_ReactiveRendersWhenStale ==
    [][/\ (call'.op = "_animate" /\ call'.exc = "none"
           /\ render_trigger["v1"] = "reactive")
          => /\ call'.rendered <=> (render_stale["v1"] \/ AskedRender("v1") # {})
             /\ ~render_stale'["v1"]
       /\ (render_trigger'["v1"] = "reactive" /\ call'.exc = "none"
           /\ call'.op \in {"add_mesh", "clear", "renderer event"})
          => render_stale'["v1"]
       /\ (render_stale["v1"] /\ ~render_stale'["v1"])
          => (call'.op = "_animate" /\ call'.rendered)
      ]_vars

\* A reactive frame that found nothing stale and rendered because a
\* function with req_render returned
C33_Witness ==
    /\ call.op = "_animate" /\ call.exc = "none"
    /\ render_trigger["v1"] = "reactive"
    /\ ~call.was_stale /\ call.rendered /\ ~render_stale["v1"]
    /\ "tick" \in Range(call.ran)
(***************************************************************************)
(* Claims about double clicks                                              *)
(***************************************************************************)

\* What a double click on the child at position j does when it performs
\* the action on_double_click holds, and nothing when that is None
Configured(v, j) ==
    Normalize(handle_object_event(World, v, scene[v][j].h,
                  IF double_click[v].value = None THEN {}
                  ELSE {double_click[v].value}))

\* C34: a double click on an object does what the value of on_double_click
\* says, hide, remove or select, and nothing else: no action set earlier is
\* performed, and with None the click changes nothing.
C34_DoubleClickDoesConfigured ==
    [][call'.op = "double_click"
          => /\ scene' = Configured("v1", call'.args.at).scene
             /\ selected' = Configured("v1", call'.args.at).selected]_vars
====
